---- MODULE Spec2Model ----
(***************************************************************************)
(* Verification model of jb (github.com/jsando/jb): module reference       *)
(* graph and build order, the module loader, the java builder's build     *)
(* gate, the multi-module build driver and build-classpath resolution.    *)
(***************************************************************************)
EXTENDS Integers, Sequences, FiniteSets, TLC

(***************************************************************************)
(* Bounds                                                                  *)
(***************************************************************************)
NumModules == 3
MaxRefs == 2
\* entries in a descriptor's "references" field
MaxLoadRefs == 2
\* outermost GetModule calls on one loader
MaxLoads == 2
\* nested GetModule frames the runtime stack can hold
MaxStackDepth == 4
\* "dependencies" entries of the module being built
MaxModuleDeps == 2
\* getBuildDependencies calls on one set of loaded modules
MaxClasspathCalls == 2
\* build runs (tool invocations) in a row
MaxRuns == 2
\* edits of the files between build runs
MaxClock == 1

Modules == 1..NumModules
NoModule == 0

\* all sequences over S of length at most n
RECURSIVE SeqsUpTo(_, _)
SeqsUpTo(S, n) ==
  IF n = 0 THEN {<<>>}
  ELSE LET shorter == SeqsUpTo(S, n - 1)
       IN shorter \cup {Append(s, x) : s \in {t \in shorter : Len(t) = n - 1}, x \in S}

Range(s) == {s[i] : i \in 1..Len(s)}

VARIABLES
  References,    \* Module.References of every in-memory module
  orderResult,   \* outcome of the last GetModuleReferencesInBuildOrder call
  disk,          \* module descriptors on disk: directory -> "references" field
  heap,          \* Module objects created by the loader, in creation order
  modules,       \* ModuleLoader.modules: cache key -> Module
  callStack,     \* active GetModule invocations (innermost last)
  loadResult,    \* what the outermost GetModule call returned
  loads,         \* number of outermost GetModule calls made
  moduleInfo,    \* Module.ModuleDirAbs, Group, Name and Version of every module
  Dependencies,  \* Module.Dependencies of every module (resolved in place)
  repoPoms,      \* the document GetPOM yields for each coordinate it can fetch
  classpath,     \* outcome of the last getBuildDependencies call
  buildModules,  \* moduleBuilder.buildModules
  files,         \* per module: descriptor bytes, java sources and resource files
  build,         \* per module: the build directory and what it holds
  clock,         \* source of fresh modification times
  errorCount,    \* buildLog.errorCount of the running build
  pc,            \* where moduleBuilder.Build stands
  cur,           \* index into buildModules of the module being processed
  pending,       \* referenced modules of the current module still to build
  lastBuild,     \* per module: what the logger reported for its latest Build
  changed,       \* per module: kinds of input changed since its latest Build
  okThisRun,     \* modules built or found up to date in the current run
  failedThisRun, \* modules whose Build failed in the current run
  runs,          \* number of build runs started
  report,        \* what BuildFinish reported for the latest finished run
  command,       \* the command of the running or latest process: build, test or clean
  remotes,       \* LocalRepository.remotes: the remote repositories, in order
  repoFiles,     \* files of the local repository directory and their bytes
  fetchResult,   \* what the last getFile call did and returned
  expandInput,   \* the property table and the string handed to Expand
  expandResult,  \* what Expand and ResolveMavenFields returned for it
  walk,          \* the last call of ResolveDependencies: what it was given, fetched and returned
  pomDocs,       \* the metadata documents a repository can fetch, as written
  pomHeap,       \* the POM objects GetPOM has created
  poms,          \* LocalRepository.poms: coordinate to cached POM object
  pomReturned,   \* per coordinate, the object the first successful GetPOM returned
  pomResult,     \* what the last GetPOM call did and returned
  installResult, \* what the last InstallPackage call was given and returned
  parse,         \* the string handed to ParseCoordinates and what it returned
  fetchers,      \* tool processes inside getFile on one repository directory
  depObjects,    \* Dependency objects in memory and the list of a module made of them
  collected      \* what the classpath collection over these objects returned

orderVars == <<References, orderResult>>
loadVars == <<disk, heap, modules, callStack, loadResult, loads>>
depVars == <<moduleInfo, Dependencies, repoPoms, classpath>>
buildVars == <<buildModules, files, build, clock, errorCount, pc, cur, pending,
               lastBuild, changed, okThisRun, failedThisRun, runs, report, command>>
repoVars == <<remotes, repoFiles, fetchResult, installResult>>
pomRest == <<expandInput, expandResult, pomDocs, pomHeap, pomReturned, pomResult>>
pomVars == <<pomRest, poms>>
walkVars == <<walk>>
toolVars == <<parse, fetchers, depObjects, collected>>
vars == <<orderVars, loadVars, depVars, buildVars, repoVars, pomVars, walkVars,
         toolVars>>

\* what each specification leaves alone
idleForOrder == <<loadVars, depVars, buildVars, repoVars, pomVars, walkVars,
                toolVars>>
idleForLoad == <<orderVars, depVars, buildVars, repoVars, pomVars, walkVars,
                toolVars>>
idleForDeps == <<orderResult, loadVars, buildVars, repoVars, pomRest, walkVars,
                toolVars>>
idleForBuild == <<orderResult, loadVars, classpath, repoVars, pomRest, walkVars,
                toolVars>>
idleForFetch == <<orderVars, loadVars, depVars, buildVars, pomVars, walkVars,
                toolVars>>

(***************************************************************************)
(* project.Module.GetModuleReferencesInBuildOrder                          *)
(***************************************************************************)
\* state of one call: the visited and stack maps, the result slice and the
\* module named by the circular-reference error (NoModule while err == nil)
VisitInit == [visited |-> {}, stack |-> {}, result |-> <<>>, err |-> NoModule]

RECURSIVE visit(_, _, _), visitRefs(_, _, _, _)

\* faulty variant: appends the module before its references are visited
visitPreOrder(R, m, st) ==
  IF m \in st.visited THEN st
  ELSE IF m \in st.stack THEN [st EXCEPT !.err = m]
  ELSE LET s1 == [st EXCEPT !.stack = @ \cup {m}, !.result = Append(@, m)]
           s2 == visitRefs(R, R[m], 1, s1)
       IN IF s2.err # NoModule THEN s2
          ELSE [s2 EXCEPT !.stack = @ \ {m}, !.visited = @ \cup {m}]

\* the closure `visit`
visit(R, m, st) ==
  IF m \in st.visited THEN st
  ELSE IF m \in st.stack THEN [st EXCEPT !.err = m]
  ELSE LET s1 == [st EXCEPT !.stack = @ \cup {m}]
           s2 == visitRefs(R, R[m], 1, s1)
       IN IF s2.err # NoModule THEN s2
          ELSE [s2 EXCEPT !.stack = @ \ {m},
                          !.visited = @ \cup {m},
                          !.result = Append(@, m)]

\* `for _, ref := range m.References { if err := visit(ref); err != nil { return err } }`
visitRefs(R, list, i, st) ==
  IF i > Len(list) THEN st
  ELSE LET s == visit(R, list[i], st)
       IN IF s.err # NoModule THEN s ELSE visitRefs(R, list, i + 1, s)

\* faulty variant: swallows the error and hands back what was collected
GetModuleReferencesPartial(R, m) ==
  LET s == visitRefs(R, R[m], 1, VisitInit)
  IN [ok |-> TRUE, list |-> s.result, errModule |-> NoModule]

\* returns (result, nil) or (nil, "circular reference detected for module X")
GetModuleReferencesInBuildOrder(R, m) ==
  LET s == visitRefs(R, R[m], 1, VisitInit)
  IN IF s.err # NoModule
     THEN [ok |-> FALSE, list |-> <<>>, errModule |-> s.err]
     ELSE [ok |-> TRUE, list |-> s.result, errModule |-> NoModule]

(***************************************************************************)
(* Graph vocabulary used by the properties (not part of the program)       *)
(***************************************************************************)
Direct(R, m) == Range(R[m])

RECURSIVE ReachFrom(_, _, _)
\* modules reachable from the set S through zero or more references
ReachFrom(R, S, n) ==
  IF n = 0 THEN S
  ELSE LET nxt == S \cup UNION {Direct(R, x) : x \in S}
       IN IF nxt = S THEN S ELSE ReachFrom(R, nxt, n - 1)

\* modules reachable from m through one or more references
ReachPlus(R, m) == ReachFrom(R, Direct(R, m), Cardinality(DOMAIN R))

OnCycle(R, m) == m \in ReachPlus(R, m)
Acyclic(R) == \A m \in DOMAIN R : ~OnCycle(R, m)
\* a cycle is reachable from m: m is on one, or a module m reaches is
CycleReachable(R, m) == \E x \in ReachPlus(R, m) : OnCycle(R, x)

NoDuplicates(s) == \A i, j \in 1..Len(s) : s[i] = s[j] => i = j

(***************************************************************************)
(* Specification of the build-order function: any reference graph, then    *)
(* one call per module                                                     *)
(***************************************************************************)
RefLists == SeqsUpTo(Modules, MaxRefs)

NotCalled == [called |-> FALSE, m |-> NoModule, ok |-> TRUE, list |-> <<>>, errModule |-> NoModule]

\* a loader on which nothing has been loaded yet
NoLoader ==
  /\ disk = <<>>
  /\ heap = <<>>
  /\ modules = <<>>
  /\ callStack = <<>>
  /\ loadResult = [status |-> "idle", module |-> NoModule, err |-> "none"]
  /\ loads = 0

NoClasspath ==
  [called |-> FALSE, calls |-> 0, m |-> NoModule, ok |-> TRUE, jars |-> {}, err |-> "none"]

NoWalk ==
  [called |-> FALSE, calls |-> 0, before |-> <<>>, fetched |-> <<>>, err |-> "none",
   detail |-> <<>>]

\* no module carries external dependencies and nothing was resolved
NoDeps ==
  /\ moduleInfo = <<>>
  /\ Dependencies = <<>>
  /\ repoPoms = <<>>
  /\ classpath = NoClasspath
  /\ walk = NoWalk

NoReport == [finished |-> FALSE, errors |-> 0]

\* no build driver exists
NoBuild ==
  /\ buildModules = <<>>
  /\ files = <<>>
  /\ build = <<>>
  /\ clock = 0
  /\ errorCount = 0
  /\ pc = "idle"
  /\ cur = 0
  /\ pending = <<>>
  /\ lastBuild = <<>>
  /\ changed = <<>>
  /\ okThisRun = {}
  /\ failedThisRun = {}
  /\ runs = 0
  /\ report = NoReport
  /\ command = ""

\* no earlier getFile call
NoEarlierFetch == [called |-> FALSE, file |-> "", ok |-> TRUE, outcomes |-> <<>>]

NoFetch ==
  [called |-> FALSE, file |-> "", hit |-> FALSE, ok |-> TRUE, path |-> "", err |-> "none",
   outcomes |-> <<>>, tried |-> <<>>, earlier |-> NoEarlierFetch]

NoInstall ==
  [called |-> FALSE, calls |-> 0, version |-> <<>>, ok |-> TRUE, err |-> "none",
   before |-> <<>>, pom |-> <<>>, jar |-> <<>>]

\* ParseCoordinates has not been called
NoParse == [called |-> FALSE, gav |-> <<>>, ok |-> TRUE, dep |-> <<>>]

NoCollection == [called |-> FALSE, ok |-> TRUE, jars |-> {}, err |-> "none"]

NoObjects ==
  /\ depObjects = [objects |-> <<>>, list |-> <<>>]
  /\ collected = NoCollection

NoTools ==
  /\ parse = NoParse
  /\ fetchers = <<>>
  /\ NoObjects

NoExpand == [called |-> FALSE, result |-> <<>>, passes |-> 0, resolved |-> <<>>]

\* no metadata document has been read and nothing was expanded
NoPomResult ==
  [called |-> FALSE, calls |-> 0, gav |-> <<>>, ok |-> TRUE, pom |-> 0, err |-> "none",
   read |-> <<>>, merges |-> <<>>, earlier |-> 0, mutated |-> FALSE]

\* GetPOM has not been called and there is nothing it could fetch
NoGetPOM ==
  /\ pomDocs = <<>>
  /\ pomHeap = <<>>
  /\ poms = <<>>
  /\ pomReturned = <<>>
  /\ pomResult = NoPomResult

NoPoms ==
  /\ expandInput = [props |-> <<>>, value |-> <<>>]
  /\ expandResult = NoExpand
  /\ NoGetPOM

\* no local repository has been opened
NoRepo ==
  /\ remotes = <<>>
  /\ repoFiles = <<>>
  /\ fetchResult = NoFetch
  /\ installResult = NoInstall
  /\ NoPoms

InitOrder ==
  /\ NoTools
  /\ References \in [Modules -> RefLists]
  /\ orderResult = NotCalled
  /\ NoLoader
  /\ NoDeps
  /\ NoBuild
  /\ NoRepo

CallBuildOrder ==
  \E m \in Modules :
    LET r == GetModuleReferencesInBuildOrder(References, m)
    IN /\ orderResult' = [called |-> TRUE, m |-> m, ok |-> r.ok, list |-> r.list,
                          errModule |-> r.errModule]
       /\ UNCHANGED <<References, idleForOrder>>

NextOrder == CallBuildOrder

SpecOrder == InitOrder /\ [][NextOrder]_vars

\* C1: on an acyclic reference graph GetModuleReferencesInBuildOrder(M)
\* returns without error a list holding each module reachable from M through
\* one or more references exactly once, every module after all modules it
\* transitively references.
C1_BuildOrderComplete ==
  (orderResult.called /\ Acyclic(References)) =>
    /\ orderResult.ok
    /\ Range(orderResult.list) = ReachPlus(References, orderResult.m)
    /\ NoDuplicates(orderResult.list)
    /\ \A i, j \in 1..Len(orderResult.list) :
         orderResult.list[j] \in ReachPlus(References, orderResult.list[i]) => j < i

\* a chain M -> B -> C was ordered: the list has at least two entries
C1_Witness ==
  /\ orderResult.called
  /\ Acyclic(References)
  /\ Len(orderResult.list) >= 2
  /\ \E i \in 1..Len(orderResult.list) :
       ReachPlus(References, orderResult.list[i]) # {}

\* C2: when a cycle is reachable from M (through M, among its references, or
\* a self-reference) the call fails with a circular-reference error naming a
\* module and returns no list, never a partial order.
C2_CycleRejected ==
  (orderResult.called /\ CycleReachable(References, orderResult.m)) =>
    /\ ~orderResult.ok
    /\ orderResult.errModule \in Modules
    /\ orderResult.list = <<>>

\* a cycle behind an acyclic prefix was rejected after part of the graph had
\* already been ordered
C2_Witness ==
  /\ orderResult.called
  /\ ~orderResult.ok
  /\ ~OnCycle(References, orderResult.m)
  /\ \E x \in Direct(References, orderResult.m) : References[x] = <<>>
  /\ References[orderResult.m][1] \in {x \in Modules : References[x] = <<>>}

(***************************************************************************)
(* project.ModuleLoader: GetModule and the module cache                    *)
(***************************************************************************)
ModuleFilename == "jb-module.json"

\* module directories that exist on disk, as absolute paths split in segments
LoadDirs == {<<"p", "a">>, <<"p", "b">>, <<"q", "a">>}

\* values a "references" entry can take (paths relative to the module dir)
RefStrings == {<<"..", "a">>, <<"..", "b">>, <<"..", "..", "q", "a">>}

RECURSIVE CleanInto(_, _)
\* lexical path cleaning: "." is dropped, ".." removes the segment before it
CleanInto(acc, rest) ==
  IF rest = <<>> THEN acc
  ELSE IF Head(rest) = "." THEN CleanInto(acc, Tail(rest))
  ELSE IF Head(rest) = ".."
       THEN CleanInto(IF acc = <<>> THEN acc ELSE SubSeq(acc, 1, Len(acc) - 1), Tail(rest))
  ELSE CleanInto(Append(acc, Head(rest)), Tail(rest))

\* filepath.Join(dir, rel)
Join(dir, rel) == CleanInto(<<>>, dir \o rel)

\* filepath.Dir and filepath.Base of a path with at least one segment
Dir(path) == SubSeq(path, 1, Len(path) - 1)
Base(path) == path[Len(path)]

ModuleFileOf(d) == Append(d, ModuleFilename)

\* the directories on disk: the module directories and every directory above
\* them, up to the root
DirsOnDisk == {SubSeq(d, 1, n) : d \in LoadDirs, n \in 0..2}

\* the regular files on disk: one descriptor per module directory and a file
\* of another name
OtherFile == <<"p", "a", "notes.txt">>
FilesOnDisk == {ModuleFileOf(d) : d \in LoadDirs} \cup {OtherFile}

\* os.Stat(path) returns no error
PathExists(path) == path \in DirsOnDisk \/ path \in FilesOnDisk

\* strings.HasSuffix(modulePath, ModuleFilename), on the file names above
HasModuleSuffix(path) == path # <<>> /\ Base(path) = ModuleFilename

\* getModuleFilePath: a directory is completed with the descriptor file name,
\* a file must carry the descriptor file name
getModuleFilePath(path) ==
  IF ~PathExists(path) THEN [ok |-> FALSE, path |-> <<>>, err |-> "stat failed"]
  ELSE IF path \in DirsOnDisk THEN [ok |-> TRUE, path |-> ModuleFileOf(path), err |-> "none"]
  ELSE IF ~HasModuleSuffix(path)
  THEN [ok |-> FALSE, path |-> <<>>, err |-> "module file must be named"]
  ELSE [ok |-> TRUE, path |-> path, err |-> "none"]

\* readFile(path): os.Open succeeds on the files, fails on anything else that
\* getModuleFilePath lets through
readFile(path) == path \in FilesOnDisk

\* `l.modules[module.Name] = module`: the key GetModule stores a module under
StoreKey(modulePath, name) == <<name>>

IdleResult == [status |-> "idle", module |-> NoModule, err |-> "none"]

\* hand the module `id` to whoever called GetModule: the outermost caller
\* when `stack` is empty, else the frame on top, which appends it to its
\* module's References and goes on with its next reference
Deliver(stack, hp, id) ==
  IF stack = <<>>
  THEN [stack |-> stack, heap |-> hp,
        result |-> [status |-> "ok", module |-> id, err |-> "none"]]
  ELSE LET n == Len(stack)
           top == stack[n]
       IN [stack |-> [stack EXCEPT ![n].pending = Tail(@)],
           heap |-> [hp EXCEPT ![top.mod].refs = Append(@, id)],
           result |-> [status |-> "running", module |-> NoModule, err |-> "none"]]

\* GetModule from entry up to the loop over the references
GetModuleEnter(path) ==
  LET fp == getModuleFilePath(path) IN
  IF ~fp.ok
  THEN \* err from getModuleFilePath: every active caller returns (nil, err)
       /\ callStack' = <<>>
       /\ loadResult' = [status |-> "error", module |-> NoModule, err |-> fp.err]
       /\ UNCHANGED <<heap, modules>>
  ELSE IF fp.path \in DOMAIN modules
  THEN \* already loaded
       LET d == Deliver(callStack, heap, modules[fp.path])
       IN /\ callStack' = d.stack
          /\ heap' = d.heap
          /\ loadResult' = d.result
          /\ UNCHANGED modules
  ELSE IF ~readFile(fp.path)
  THEN \* err from readFile: every active caller returns (nil, err)
       /\ callStack' = <<>>
       /\ loadResult' = [status |-> "error", module |-> NoModule, err |-> "open failed"]
       /\ UNCHANGED <<heap, modules>>
  ELSE IF Len(callStack) >= MaxStackDepth
  THEN \* the goroutine stack is exhausted: the runtime kills the process
       /\ callStack' = <<>>
       /\ loadResult' = [status |-> "crashed", module |-> NoModule, err |-> "stack overflow"]
       /\ UNCHANGED <<heap, modules>>
  ELSE LET id == Len(heap) + 1
           dir == Dir(fp.path)
           name == Base(dir)
       IN /\ heap' = Append(heap, [dir |-> dir, name |-> name, refs |-> <<>>])
          /\ modules' = (StoreKey(fp.path, name) :> id) @@ modules
          /\ callStack' = Append(callStack, [mod |-> id, pending |-> disk[dir]])
          /\ loadResult' = [status |-> "running", module |-> NoModule, err |-> "none"]

\* an outermost call, made by LoadProject, internalLoadProject or a test
GetModuleCall ==
  \E path \in DirsOnDisk \cup FilesOnDisk \cup {<<"p", "c">>} :
    /\ callStack = <<>>
    /\ loadResult.status \in {"idle", "ok", "error"}
    /\ loads < MaxLoads
    /\ loads' = loads + 1
    /\ GetModuleEnter(path)
    /\ UNCHANGED <<disk, idleForLoad>>

\* `refModule, err := l.GetModule(filepath.Join(module.ModuleDirAbs, ref))`
GetModuleRef ==
  /\ callStack # <<>>
  /\ callStack[Len(callStack)].pending # <<>>
  /\ LET top == callStack[Len(callStack)]
     IN GetModuleEnter(Join(heap[top.mod].dir, Head(top.pending)))
  /\ UNCHANGED <<disk, loads, idleForLoad>>

\* `return module, nil` once every reference is resolved
GetModuleReturn ==
  /\ callStack # <<>>
  /\ callStack[Len(callStack)].pending = <<>>
  /\ LET n == Len(callStack)
         d == Deliver(SubSeq(callStack, 1, n - 1), heap, callStack[n].mod)
     IN /\ callStack' = d.stack
        /\ heap' = d.heap
        /\ loadResult' = d.result
  /\ UNCHANGED <<disk, modules, loads, idleForLoad>>

InitLoad ==
  /\ NoTools
  /\ disk \in [LoadDirs -> SeqsUpTo(RefStrings, MaxLoadRefs)]
  /\ heap = <<>>
  /\ modules = <<>>
  /\ callStack = <<>>
  /\ loadResult = IdleResult
  /\ loads = 0
  /\ References = <<>>
  /\ orderResult = NotCalled
  /\ NoDeps
  /\ NoBuild
  /\ NoRepo

NextLoad == GetModuleCall \/ GetModuleRef \/ GetModuleReturn

SpecLoad == InitLoad /\ [][NextLoad]_vars

\* the on-disk reference relation: the directories each descriptor names
DiskRefs == [d \in LoadDirs |-> [i \in 1..Len(disk[d]) |-> Join(d, disk[d][i])]]

\* the same relation without the references to directories that do not exist
DiskRefsFound ==
  [d \in LoadDirs |-> SelectSeq(DiskRefs[d], LAMBDA x : x \in LoadDirs)]

\* directories reachable from d through one or more on-disk references
DiskReachPlus(d) == ReachPlus(DiskRefsFound, d)

\* the load started at d runs into a cycle of on-disk references and into
\* no reference to a missing module
DiskCycleFrom(d) ==
  /\ \E x \in DiskReachPlus(d) \cup {d} : x \in DiskReachPlus(x)
  /\ \A x \in DiskReachPlus(d) \cup {d} : Range(DiskRefs[x]) \subseteq LoadDirs

\* C5: within one ModuleLoader a Module is created once per distinct module
\* path: no two Module objects of the loader stand for the same directory.
C5_OneInstancePerPath ==
  \A i, j \in 1..Len(heap) : heap[i].dir = heap[j].dir => i = j

\* C6: a load that runs into a cycle of on-disk references ends by returning
\* a circular-reference error to the caller of GetModule.
C6_DiskCycleFails ==
  \A d \in LoadDirs :
    (loads = 1 /\ callStack = <<>> /\ Len(heap) >= 1 /\ heap[1].dir = d /\ DiskCycleFrom(d))
      => (loadResult.status = "error" /\ loadResult.err = "circular reference")

(***************************************************************************)
(* java.Builder: transitive dependency walk and build classpath            *)
(***************************************************************************)
\* a project.Dependency as ParseCoordinates leaves it: no path, no children
NewDependency(g, a, v) == [g |-> g, a |-> a, v |-> v, path |-> <<>>, trans |-> <<>>]

\* LocalRepository.GetJAR: <root>/<group>/<artifact>/<version>/<artifact>-<version>.jar
JarPath(g, a, v) == <<"repository", g, a, v, "jar">>

\* Builder.getModuleJarPath: <module dir>/build/<name>-<version>.jar
getModuleJarPath(info) == <<"build", info.dir, info.name, info.version, "jar">>

\* maven.GAV(groupID, artifactID, version)
GAV(g, a, v) == <<g, a, v>>

\* what GetPOM returns next to an error
NoDocument == [packaging |-> "", deps |-> <<>>, parent |-> <<>>]

\* `if err == nil { c.poms[gav] = pom }`, right after decoding
cacheDocument(cache, gav, pom) == (gav :> pom) @@ cache

RECURSIVE GetPOM(_, _, _, _)
\* LocalRepository.GetPOM, seen from the walker: `cache` is c.poms. The
\* document of a coordinate is returned from the cache if it is there; else
\* it is fetched and cached, and then its parent, if it names one, is asked
\* for: when that fails the call returns the error and the document stays
\* in the cache as decoded
GetPOM(cache, g, a, v) ==
  IF g = "" \/ a = "" \/ v = ""
  THEN [ok |-> FALSE, pom |-> NoDocument, cache |-> cache]
  ELSE IF GAV(g, a, v) \in DOMAIN cache
  THEN [ok |-> TRUE, pom |-> cache[GAV(g, a, v)], cache |-> cache]
  ELSE IF GAV(g, a, v) \notin DOMAIN repoPoms
  THEN [ok |-> FALSE, pom |-> NoDocument, cache |-> cache]
  ELSE LET pom == repoPoms[GAV(g, a, v)]
           \* `err = c.expandParentProperties(pom); if err != nil { return nil, err }`
           expandParentProperties(up) ==
             IF ~up.ok
             THEN [ok |-> FALSE, pom |-> NoDocument, cache |-> up.cache]
             ELSE [ok |-> TRUE, pom |-> pom, cache |-> up.cache]
       IN IF pom.parent = <<>>
          THEN [ok |-> TRUE, pom |-> pom, cache |-> cacheDocument(cache, GAV(g, a, v), pom)]
          ELSE expandParentProperties(
                 GetPOM(cacheDocument(cache, GAV(g, a, v), pom),
                        pom.parent[1], pom.parent[2], pom.parent[3]))

\* no error: the kind, and for an invalid package the coordinate and the
\* Coordinates of the dependency whose document declared it
NoWalkError == [err |-> "none", detail |-> <<>>]
WalkError(kind) == [err |-> kind, detail |-> <<>>]

\* fmt.Errorf("invalid maven package '%s' referenced from %s", gav, dep.Coordinates)
InvalidPackage(gav, dep) ==
  [err |-> "invalid maven package", detail |-> <<gav, GAV(dep.g, dep.a, dep.v)>>]

\* `key := fmt.Sprintf("%s:%s", dep.Group, dep.Artifact)`
visitedKey(dep) == <<dep.g, dep.a>>

\* faulty variant: only entries of scope provided are passed over
skippedProvidedOnly(pomChild) == pomChild.scope = "provided"

\* `pomChild.Scope == "test" || pomChild.Scope == "provided" || pomChild.Optional == "true"`
skipped(pomChild) ==
  pomChild.scope = "test" \/ pomChild.scope = "provided" \/ pomChild.optional = "true"

\* faulty variant: an entry without a version passes the check
incompleteNoVersionCheck(pomChild) == pomChild.g = "" \/ pomChild.a = ""

\* `pomChild.GroupID == "" || pomChild.ArtifactID == "" || pomChild.Version == ""`
incomplete(pomChild) == pomChild.g = "" \/ pomChild.a = "" \/ pomChild.v = ""

RECURSIVE resolveDependency(_, _, _, _), resolveChildren(_, _, _, _, _, _)

\* what resolveDependency and the loop over pom.Dependencies yield: the
\* dependency as mutated, the visited map, the coordinates GetPOM was asked
\* for so far, the repository's cache and the error
Resolved(dep, visited, fetched, cache, e) ==
  [dep |-> dep, visited |-> visited, fetched |-> fetched, cache |-> cache, e |-> e]

\* Builder.resolveDependency up to the loop over pom.Dependencies
resolveDependency(dep, visited, fetched, cache) ==
  IF dep.path # <<>>
  THEN Resolved(dep, visited, fetched, cache, NoWalkError)
  ELSE LET key == visitedKey(dep) IN
    IF key \in DOMAIN visited
    THEN Resolved(dep, visited, fetched, cache, NoWalkError)
    ELSE LET v1 == (key :> dep.v) @@ visited
             f1 == Append(fetched, GAV(dep.g, dep.a, dep.v))
             \* from `if err != nil` after GetPOM on, r being what GetPOM returned
             withDocument(r) ==
               IF ~r.ok
               THEN Resolved(dep, v1, f1, r.cache, WalkError("fetch failed"))
               ELSE IF r.pom.packaging \in {"", "jar", "bundle"}
               THEN resolveChildren([dep EXCEPT !.path = JarPath(dep.g, dep.a, dep.v)],
                                    r.pom.deps, 1, v1, f1, r.cache)
               ELSE IF r.pom.packaging = "pom"
               THEN resolveChildren(dep, r.pom.deps, 1, v1, f1, r.cache)
               ELSE Resolved(dep, v1, f1, r.cache, WalkError("packaging type not supported"))
         IN withDocument(GetPOM(cache, dep.g, dep.a, dep.v))

\* `for _, pomChild := range pom.Dependencies { ... }`
resolveChildren(dep, pomDeps, i, visited, fetched, cache) ==
  IF i > Len(pomDeps)
  THEN Resolved(dep, visited, fetched, cache, NoWalkError)
  ELSE LET pomChild == pomDeps[i] IN
    IF skipped(pomChild)
    THEN resolveChildren(dep, pomDeps, i + 1, visited, fetched, cache)
    ELSE IF incomplete(pomChild)
    THEN Resolved(dep, visited, fetched, cache,
                  InvalidPackage(GAV(pomChild.g, pomChild.a, pomChild.v), dep))
    ELSE LET \* `if err != nil { return err }; dep.Transitive = append(...)`
             withChild(r) ==
               IF r.e.err # "none"
               THEN Resolved(dep, r.visited, r.fetched, r.cache, r.e)
               ELSE resolveChildren([dep EXCEPT !.trans = Append(@, r.dep)],
                                    pomDeps, i + 1, r.visited, r.fetched, r.cache)
         IN withChild(resolveDependency(NewDependency(pomChild.g, pomChild.a, pomChild.v),
                                        visited, fetched, cache))

RECURSIVE resolveEach(_, _, _, _, _)
\* the loop of ResolveDependencies over module.Dependencies from index i on
resolveEach(deps, i, visited, fetched, cache) ==
  IF i > Len(deps)
  THEN [deps |-> deps, err |-> "none", detail |-> <<>>, fetched |-> fetched,
        cache |-> cache]
  ELSE LET \* deps[i] is mutated in place, whether the walk from it fails or not
           withResolved(r) ==
             IF r.e.err # "none"
             THEN [deps |-> [deps EXCEPT ![i] = r.dep], err |-> r.e.err,
                   detail |-> r.e.detail, fetched |-> r.fetched, cache |-> r.cache]
             ELSE resolveEach([deps EXCEPT ![i] = r.dep], i + 1,
                              r.visited, r.fetched, r.cache)
       IN withResolved(resolveDependency(deps[i], visited, fetched, cache))

\* Builder.ResolveDependencies: a fresh visited map per call, the cache of
\* the repository as earlier calls left it
ResolveDependencies(deps, cache) == resolveEach(deps, 1, <<>>, <<>>, cache)

RECURSIVE addPkg(_, _), addPkgs(_, _, _)

\* faulty variant: a conflicting version is added like a new dependency
addPkgNoEviction(pkg, acc) ==
  LET key == <<pkg.g, pkg.a>>
      acc1 == [seenDeps |-> (key :> pkg.v) @@ acc.seenDeps,
               jars |-> IF pkg.path # <<>> THEN acc.jars \cup {pkg.path} ELSE acc.jars]
  IN IF key \in DOMAIN acc.seenDeps /\ acc.seenDeps[key] = pkg.v
     THEN addPkgs(pkg.trans, 1, acc)
     ELSE addPkgs(pkg.trans, 1, acc1)

\* the closure `addPkg` of getBuildDependencies; acc holds seenDeps and jars
addPkg(pkg, acc) ==
  LET key == <<pkg.g, pkg.a>> IN
  IF key \in DOMAIN acc.seenDeps
  THEN IF acc.seenDeps[key] # pkg.v THEN acc
       ELSE addPkgs(pkg.trans, 1, acc)
  ELSE addPkgs(pkg.trans, 1,
               [seenDeps |-> (key :> pkg.v) @@ acc.seenDeps,
                jars |-> IF pkg.path # <<>> THEN acc.jars \cup {pkg.path} ELSE acc.jars])

\* addPkg applied to the entries of a list in order
addPkgs(list, i, acc) ==
  IF i > Len(list) THEN acc ELSE addPkgs(list, i + 1, addPkg(list[i], acc))

\* Builder.getModulePackage
getModulePackage(info) ==
  [g |-> info.group, a |-> info.name, v |-> info.version,
   path |-> getModuleJarPath(info), trans |-> <<>>]

RECURSIVE addRefs(_, _, _, _, _)
\* the loop of getBuildDependencies over the referenced modules: D is the
\* Dependencies of all modules, updated as each reference is resolved
addRefs(refs, i, D, acc, cache) ==
  IF i > Len(refs) THEN [D |-> D, acc |-> acc, err |-> "none", cache |-> cache]
  ELSE LET ref == refs[i]
           \* acc1 is acc after addPkg(modulePackage), r what ResolveDependencies
           \* of the referenced module returned
           withReference(acc1, r) ==
             IF r.err # "none"
             THEN [D |-> [D EXCEPT ![ref] = r.deps], acc |-> acc1, err |-> r.err,
                   cache |-> r.cache]
             ELSE addRefs(refs, i + 1, [D EXCEPT ![ref] = r.deps],
                          addPkgs(r.deps, 1, acc1), r.cache)
       IN withReference(addPkg(getModulePackage(moduleInfo[ref]), acc),
                        ResolveDependencies(D[ref], cache))

\* Builder.getBuildDependencies(module): the jar paths or the error, and the
\* Dependencies and the repository's cache as the call leaves them
getBuildDependencies(m, D, cache) ==
  LET \* after the loop over the referenced modules
      withReferences(all) ==
        IF all.err # "none"
        THEN [ok |-> FALSE, jars |-> {}, err |-> all.err, D |-> all.D,
              cache |-> all.cache]
        ELSE [ok |-> TRUE, jars |-> all.acc.jars, err |-> "none", D |-> all.D,
              cache |-> all.cache]
      \* after ResolveDependencies(module): the module's own packages are
      \* added first, then the referenced modules in build order
      withOwn(refs, r) ==
        IF r.err # "none"
        THEN [ok |-> FALSE, jars |-> {}, err |-> r.err, D |-> [D EXCEPT ![m] = r.deps],
              cache |-> r.cache]
        ELSE withReferences(
               addRefs(refs.list, 1, [D EXCEPT ![m] = r.deps],
                       addPkgs(r.deps, 1, [seenDeps |-> <<>>, jars |-> {}]), r.cache))
      \* after GetModuleReferencesInBuildOrder
      withOrder(refs) ==
        IF ~refs.ok
        THEN [ok |-> FALSE, jars |-> {}, err |-> "failed to resolve references", D |-> D,
              cache |-> cache]
        ELSE withOwn(refs, ResolveDependencies(D[m], cache))
  IN withOrder(GetModuleReferencesInBuildOrder(References, m))

(***************************************************************************)
(* Specification of the classpath computation: a module M (1) that may     *)
(* reference a module N (2), their declared dependencies, and a repository *)
(***************************************************************************)
DepModules == 1..2

\* coordinates a descriptor can name; g:x:2 is in no repository
Coords == {<<"g", "a", "1">>, <<"g", "a", "2">>, <<"g", "x", "1">>, <<"g", "x", "2">>}
Fetchable == {<<"g", "a", "1">>, <<"g", "a", "2">>, <<"g", "x", "1">>}

\* the parent a document can name: it is in no repository
MissingParent == <<"g", "parent", "1">>

PomDep(c) == [g |-> c[1], a |-> c[2], v |-> c[3], scope |-> "", optional |-> ""]
DeclaredDep(c) == NewDependency(c[1], c[2], c[3])

\* the documents of the repository: g:a:1 declares nothing, g:a:2 may depend
\* on g:x:1, g:x:1 on one fetchable artifact, may be a jar, a pom or a war and
\* may name a parent that cannot be fetched
Repositories ==
  {[c \in Fetchable |->
      IF c = <<"g", "x", "1">> THEN [packaging |-> pk, deps |-> dx, parent |-> px]
      ELSE IF c = <<"g", "a", "2">> THEN [packaging |-> "jar", deps |-> da, parent |-> <<>>]
      ELSE [packaging |-> "jar", deps |-> <<>>, parent |-> <<>>]] :
    pk \in {"jar", "pom", "war"},
    px \in {<<>>, MissingParent},
    dx \in {<<>>} \cup {<<PomDep(c)>> : c \in Fetchable},
    da \in {<<>>, <<PomDep(<<"g", "x", "1">>)>>}}

InitDeps ==
  /\ NoTools
  /\ References \in {[m \in DepModules |-> IF m = 1 THEN r1 ELSE r2] :
                       r1 \in {<<>>, <<2>>}, r2 \in {<<>>, <<1>>}}
  /\ moduleInfo \in {[m \in DepModules |->
                        IF m = 1
                        THEN [dir |-> "m", group |-> "g", name |-> "m", version |-> "1"]
                        ELSE [dir |-> "n", group |-> "g", name |-> nm, version |-> "1"]] :
                      nm \in {"n", "a"}}
  /\ Dependencies \in {[m \in DepModules |-> IF m = 1 THEN d1 ELSE d2] :
                         d1 \in SeqsUpTo({DeclaredDep(c) : c \in Coords}, MaxModuleDeps),
                         d2 \in {<<>>} \cup {<<DeclaredDep(c)>> : c \in Coords}}
  /\ repoPoms \in Repositories
  /\ classpath = NoClasspath
  /\ walk = NoWalk
  /\ orderResult = NotCalled
  /\ NoLoader
  /\ NoBuild
  /\ NoRepo

\* Build or RunTest asks for the classpath of a module
CallGetBuildDependencies ==
  \E m \in DepModules :
    \E r \in {getBuildDependencies(m, Dependencies, poms)} :
       /\ classpath.calls < MaxClasspathCalls
       /\ classpath' = [called |-> TRUE, calls |-> classpath.calls + 1, m |-> m,
                        ok |-> r.ok, jars |-> r.jars, err |-> r.err]
       /\ Dependencies' = r.D
       /\ poms' = r.cache
       /\ UNCHANGED <<References, moduleInfo, repoPoms, idleForDeps>>

NextDeps == CallGetBuildDependencies

SpecDeps == InitDeps /\ [][NextDeps]_vars

\* group, artifact and version of the artifact stored at a classpath entry
PathGAV(p) ==
  IF p[1] = "repository" THEN <<p[2], p[3], p[4]>>
  ELSE LET info == moduleInfo[CHOOSE m \in DOMAIN moduleInfo : moduleInfo[m].dir = p[2]]
       IN <<info.group, p[3], p[4]>>

RECURSIVE Flatten(_)
\* the dependencies of a list of trees in depth-first order, parents first
Flatten(list) ==
  IF list = <<>> THEN <<>>
  ELSE <<Head(list)>> \o Flatten(Head(list).trans) \o Flatten(Tail(list))

\* version of the first entry of the walk `w` with group:artifact key k
FirstVersion(w, k) ==
  LET i == CHOOSE i \in 1..Len(w) :
             /\ <<w[i].g, w[i].a>> = k
             /\ \A j \in 1..(i - 1) : <<w[j].g, w[j].a>> # k
  IN w[i].v

\* coordinates the walk from the declared coordinates cs can come across
RECURSIVE PomClosure(_, _)
PomClosure(cs, n) ==
  IF n = 0 THEN cs
  ELSE LET nxt == cs \cup UNION {{<<d.g, d.a, d.v>> : d \in Range(repoPoms[c].deps)} :
                                  c \in cs \cap DOMAIN repoPoms}
       IN IF nxt = cs THEN cs ELSE PomClosure(nxt, n - 1)

Declared(m) == {<<d.g, d.a, d.v>> : d \in Range(Dependencies[m])}

\* the parents named from the document of coordinate c on all exist
RECURSIVE ParentsExist(_, _)
ParentsExist(c, n) ==
  \/ repoPoms[c].parent = <<>>
  \/ /\ n > 0
     /\ repoPoms[c].parent \in DOMAIN repoPoms
     /\ ParentsExist(repoPoms[c].parent, n - 1)

\* nothing but a version conflict can go wrong for module m: references are
\* acyclic and every document the walk may need exists, with its parents
\* and with a supported packaging
Resolvable(m) ==
  /\ ~CycleReachable(References, m)
  /\ \A c \in PomClosure(UNION {Declared(x) : x \in {m} \cup ReachPlus(References, m)},
                          Cardinality(Coords)) :
       /\ c \in DOMAIN repoPoms
       /\ repoPoms[c].packaging \in {"", "jar", "bundle", "pom"}
       /\ ParentsExist(c, Cardinality(DOMAIN repoPoms))

\* C3: first-wins conflict resolution: the classpath of M never holds two
\* versions of one group:artifact; for a group:artifact that M's own
\* dependency walk comes across, the version kept is the first one of that
\* walk, whatever the referenced modules declare; and a version mismatch
\* alone raises no error.
C3_FirstWins ==
  classpath.called =>
    /\ Resolvable(classpath.m) => classpath.ok
    /\ \A p, q \in classpath.jars :
         (PathGAV(p)[1] = PathGAV(q)[1] /\ PathGAV(p)[2] = PathGAV(q)[2])
           => PathGAV(p)[3] = PathGAV(q)[3]
    /\ LET own == Flatten(Dependencies[classpath.m])
       IN \A p \in classpath.jars :
            LET k == <<PathGAV(p)[1], PathGAV(p)[2]>>
            IN (\E i \in 1..Len(own) : <<own[i].g, own[i].a>> = k)
                 => PathGAV(p)[3] = FirstVersion(own, k)

\* M declares g:a:1 and references N, which declares g:a:2: the classpath of
\* M holds the jar of 1 and not the jar of 2
C3_Witness ==
  /\ classpath.called /\ classpath.m = 1 /\ classpath.ok
  /\ References[1] = <<2>>
  /\ <<"g", "a", "1">> \in Declared(1)
  /\ <<"g", "a", "2">> \in Declared(2)
  /\ JarPath("g", "a", "1") \in classpath.jars
  /\ JarPath("g", "a", "2") \notin classpath.jars

\* C28: when module M declares one version of a group:artifact itself, no
\* jar of another version of that group:artifact is on the classpath
\* computed for M, wherever the declaration stands in M's dependency list.
C28_DeclaredVersionKept ==
  (classpath.called /\ classpath.ok) =>
    \A c \in Declared(classpath.m) :
      (\A e \in Declared(classpath.m) : (e[1] = c[1] /\ e[2] = c[2]) => e[3] = c[3])
        => \A p \in classpath.jars :
             (PathGAV(p)[1] = c[1] /\ PathGAV(p)[2] = c[2]) => PathGAV(p)[3] = c[3]

\* C30: a classpath computation for a module whose previous classpath
\* computation succeeded changes no Dependency of any module (neither a
\* Path nor a Transitive list) and returns the same jar paths.
C30_SecondCallNoOp ==
  [][(classpath.called /\ classpath.ok /\ classpath'.m = classpath.m)
       => (Dependencies' = Dependencies /\ classpath'.jars = classpath.jars)]_vars

(***************************************************************************)
(* java.Builder.Build: the build gate and the build pipeline of a module   *)
(***************************************************************************)
\* number of diagnostics the compiler reports when a compilation fails
CompileDiagnostics == 1

\* util.FindFilesBySuffixR(module.SourceDirAbs, ".java"): path and ModTime
FindFilesBySuffixR(m) == files[m].sources

\* util.FindFilesByGlob(module.ResourceDirAbs, module.Resources): a pattern
\* that matches no file is an error
FindFilesByGlob(m) ==
  IF ~files[m].pattern THEN [ok |-> TRUE, found |-> <<>>]
  ELSE IF files[m].resources = <<>> THEN [ok |-> FALSE, found |-> <<>>]
  ELSE [ok |-> TRUE, found |-> files[m].resources]

\* hex(sha1(bytes)): never empty, equal exactly for equal input
Sha1Hex(bytes) == <<"sha1", bytes>>

\* faulty variant: the digest covers the file names but not their ModTime
HashInputNoTime(m, sources, embeds) ==
  <<<<"module", files[m].descriptor>>>>
    \o [i \in 1..Len(sources) |-> <<sources[i].path, 0>>]
    \o [i \in 1..Len(embeds) |-> <<embeds[i].path, 0>>]

\* what Build feeds the hasher: the descriptor bytes, then path and ModTime
\* of every source file, then of every resource file
HashInput(m, sources, embeds) ==
  <<<<"module", files[m].descriptor>>>>
    \o [i \in 1..Len(sources) |-> <<sources[i].path, sources[i].mtime>>]
    \o [i \in 1..Len(embeds) |-> <<embeds[i].path, embeds[i].mtime>>]

\* util.ReadFileAsString of build/build.sha1: "" when the file is missing
ReadFileAsString(b) == IF b.hashFile THEN b.hash ELSE <<>>

NoBuildDir == [dir |-> FALSE, hashFile |-> FALSE, hash |-> <<>>, jar |-> FALSE, pom |-> FALSE]

\* faulty variant: the old build directory is kept while rebuilding
KeepBuildDir(b) == [b EXCEPT !.dir = TRUE]

\* os.RemoveAll(buildDir) followed by os.MkdirAll(buildClasses)
RecreateBuildDir(b) == [NoBuildDir EXCEPT !.dir = TRUE]

\* os.RemoveAll(buildDir) returning an error: nothing was removed, or the
\* files were and the directory was not
RemoveAllFailed(b, fail) ==
  IF fail = "remove" THEN b ELSE [NoBuildDir EXCEPT !.dir = TRUE]

\* util.WriteFile(build/build.sha1, hash)
WriteBuildHash(b, hash) == [b EXCEPT !.hashFile = TRUE, !.hash = hash]

\* faulty variant: the failed write leaves the whole digest in the file
ShortWriteWhole(hash, fail) == hash

\* file.WriteString(content) returning an error: not all bytes were written
ShortWrite(hash, fail) ==
  IF fail = "hash write" THEN <<>> ELSE SubSeq(hash, 1, Len(hash) - 1)

\* what one Build call leaves behind and reports: the build directory, the
\* Dependencies, the repository's cache, the errors logged, whether the
\* process ended inside the call, and a record of the call (its outcome, the
\* failing step, whether
\* the compiler and the jar tool were started, the digest on disk when the
\* call began and the digest computed)
BuildOutcome(b, D, cache, errors, outcome, at, exits, compiled, jarred, oldHash, hash) ==
  [build |-> b, D |-> D, cache |-> cache, errors |-> errors, exits |-> exits,
   log |-> [outcome |-> outcome, at |-> at, exits |-> exits, compiled |-> compiled,
            jarred |-> jarred, oldHash |-> oldHash, hash |-> hash]]

\* `if j.logger.CheckError(task, err) { return }` with err != nil, on the
\* logger of the tool: the error is counted and pterm.Fatal ends the process
CheckError(b, D, cache, at, compiled, jarred, oldHash, hash) ==
  BuildOutcome(b, D, cache, 1, "failed", at, TRUE, compiled, jarred, oldHash, hash)

\* `if task.Done(err) { return }` with err != nil: the diagnostics logged
\* with task.Error and the error itself are counted, Build returns
Done(b, D, cache, diagnostics, at, compiled, jarred, oldHash, hash) ==
  BuildOutcome(b, D, cache, diagnostics + 1, "failed", at, FALSE, compiled, jarred, oldHash, hash)

\* the step of the loop over embedFiles that `fail` names, "" when that step
\* is not reached for these embeds
EmbedStep(fail, embeds) ==
  IF embeds # <<>> /\ fail = "embed path" THEN "getting relative path for embed"
  ELSE IF fail = "embed mkdir" /\ \E i \in 1..Len(embeds) : embeds[i].isDir
  THEN "mkdir for embed"
  ELSE IF fail = "embed dir" /\ \E i \in 1..Len(embeds) : ~embeds[i].isDir
  THEN "creating directory"
  ELSE IF fail = "embed copy" /\ \E i \in 1..Len(embeds) : ~embeds[i].isDir
  THEN "copying embed"
  ELSE ""

\* Builder.Build from the packaging step on (java.go:164-205): b is the
\* build directory with the compiled classes, cpD the Dependencies left by
\* the classpath computation
buildPackage(fail, b, cpD, cache, embeds, compiled, oldHash, hash) ==
  IF EmbedStep(fail, embeds) # ""
  THEN CheckError(b, cpD, cache, EmbedStep(fail, embeds), compiled, FALSE, oldHash, hash)
  ELSE IF fail = "jar"
  THEN Done(b, cpD, cache, 0, "building jar", compiled, TRUE, oldHash, hash)
  ELSE IF fail = "pom"
  THEN CheckError([b EXCEPT !.jar = TRUE], cpD, cache, "writing pom file",
                  compiled, TRUE, oldHash, hash)
  ELSE IF fail = "hash create"
  THEN CheckError([b EXCEPT !.jar = TRUE, !.pom = TRUE], cpD, cache,
                  "writing build hash",
                  compiled, TRUE, oldHash, hash)
  ELSE IF fail \in {"hash write", "hash short write"}
  THEN CheckError(WriteBuildHash([b EXCEPT !.jar = TRUE, !.pom = TRUE],
                                 ShortWrite(hash, fail)),
                  cpD, cache, "writing build hash", compiled, TRUE, oldHash, hash)
  ELSE BuildOutcome(WriteBuildHash([b EXCEPT !.jar = TRUE, !.pom = TRUE], hash),
                    cpD, cache, 0, "built", "", FALSE, compiled, TRUE, oldHash, hash)

\* Builder.Build from the classpath to the compilation (java.go:148-162):
\* cp is what getBuildDependencies returned. compileJava returns an error
\* without a diagnostic when no compiler is installed
buildCompile(fail, b, cp, embeds, hasSources, oldHash, hash) ==
  IF ~cp.ok
  THEN CheckError(b, cp.D, cp.cache, "getting build dependencies", FALSE, FALSE, oldHash, hash)
  ELSE IF hasSources /\ fail = "no compiler"
  THEN Done(b, cp.D, cp.cache, 0, "compile java sources", FALSE, FALSE, oldHash, hash)
  ELSE IF hasSources /\ fail = "compile"
  THEN Done(b, cp.D, cp.cache, CompileDiagnostics, "compile java sources", TRUE, FALSE,
            oldHash, hash)
  ELSE buildPackage(fail, b, cp.D, cp.cache, embeds, hasSources, oldHash, hash)

\* Builder.Build from the removal of the old build directory to the module
\* references (java.go:128-147)
buildRecreate(m, fail, D, cache, embeds, hasSources, oldHash, hash) ==
  IF build[m].dir /\ fail \in {"remove", "remove partly"}
  THEN CheckError(RemoveAllFailed(build[m], fail), D, cache, "removing build dir",
                  FALSE, FALSE, oldHash, hash)
  ELSE IF fail = "mkdir"
  THEN CheckError(NoBuildDir, D, cache, "creating build dir", FALSE, FALSE, oldHash, hash)
  ELSE IF ~GetModuleReferencesInBuildOrder(References, m).ok
  THEN CheckError(RecreateBuildDir(build[m]), D, cache, "getting module references",
                  FALSE, FALSE, oldHash, hash)
  ELSE buildCompile(fail, RecreateBuildDir(build[m]), getBuildDependencies(m, D, cache),
                    embeds, hasSources, oldHash, hash)

\* Builder.Build from the up-to-date check on (java.go:119-127)
buildGate(m, fail, D, cache, embeds, hasSources, oldHash, hash) ==
  IF fail = "read hash"
  THEN CheckError(build[m], D, cache, "reading build hash", FALSE, FALSE, oldHash, hash)
  ELSE IF hash = oldHash
  THEN BuildOutcome(build[m], D, cache, 0, "up to date", "", FALSE, FALSE, FALSE,
                    oldHash, hash)
  ELSE buildRecreate(m, fail, D, cache, embeds, hasSources, oldHash, hash)

\* Builder.Build(module). `fail` names the step of the environment that
\* returns an error if it is reached ("none": all succeed). D is the
\* Dependencies of all modules, cache the repository's cache. Yields the
\* module's build directory, D, the cache, the errors logged, whether the
\* process ended, and the report.
JavaBuild(m, fail, D, cache) ==
  IF fail = "find sources"
  THEN CheckError(build[m], D, cache, "finding java sources", FALSE, FALSE,
                  ReadFileAsString(build[m]), <<>>)
  ELSE IF fail = "source path" /\ FindFilesBySuffixR(m) # <<>>
  THEN CheckError(build[m], D, cache, "getting relative path for source", FALSE, FALSE,
                  ReadFileAsString(build[m]), <<>>)
  ELSE IF ~FindFilesByGlob(m).ok
  THEN CheckError(build[m], D, cache, "finding embeds", FALSE, FALSE,
                  ReadFileAsString(build[m]), <<>>)
  ELSE buildGate(m, fail, D, cache, FindFilesByGlob(m).found, FindFilesBySuffixR(m) # <<>>,
                 ReadFileAsString(build[m]),
                 Sha1Hex(HashInput(m, FindFilesBySuffixR(m), FindFilesByGlob(m).found)))

\* the steps of Build that can return an error whatever the module holds
ToolFailures ==
  {"none", "find sources", "source path", "read hash", "remove", "remove partly",
   "mkdir", "no compiler", "compile", "embed path", "embed mkdir", "embed dir",
   "embed copy", "jar", "pom", "hash create", "hash write", "hash short write"}

\* Builder.detectTestFramework(module) != ""
detectTestFramework(deps) ==
  \E i \in 1..Len(deps) : deps[i].g \in {"junit", "org.junit.jupiter"}

(***************************************************************************)
(* builder.moduleBuilder.Build: the driver of a build run                  *)
(***************************************************************************)
\* faulty variant: the driver never notices a failed reference
FailedNever(count) == FALSE

\* buildLog.Failed
Failed(count) == count > 0

\* the modules as the loader hands them out: no dependency is resolved yet
LoadedDependencies(D) ==
  [m \in DOMAIN D |->
     [i \in 1..Len(D[m]) |-> NewDependency(D[m][i].g, D[m][i].a, D[m][i].v)]]

\* the process ends: the loader's modules, the repository's cache and the
\* driver's position are gone
ProcessEnds(D) ==
  /\ poms' = <<>>
  /\ pc' = "idle"
  /\ cur' = 0
  /\ pending' = <<>>
  /\ Dependencies' = LoadedDependencies(D)

\* moduleBuilder.Build has returned: BuildAndTestModule goes on with the
\* tests of every build module, the other commands with BuildFinish
BuildReturns ==
  IF command = "test"
  THEN pc' = "test" /\ cur' = 1 /\ pending' = <<>>
  ELSE pc' = "finish" /\ UNCHANGED <<cur, pending>>

\* the bookkeeping common to every Build call the driver makes
ApplyBuild(m, r) ==
  /\ build' = [build EXCEPT ![m] = r.build]
  /\ errorCount' = errorCount + r.errors
  /\ lastBuild' = [lastBuild EXCEPT ![m] =
                     [outcome |-> r.log.outcome, at |-> r.log.at, exits |-> r.log.exits,
                      compiled |-> r.log.compiled, jarred |-> r.log.jarred,
                      oldHash |-> r.log.oldHash, hash |-> r.log.hash,
                      prev |-> lastBuild[m].outcome, prevAt |-> lastBuild[m].at,
                      changes |-> changed[m]]]
  /\ changed' = [changed EXCEPT ![m] = {}]
  /\ okThisRun' = IF r.log.outcome = "failed" THEN okThisRun ELSE okThisRun \cup {m}
  /\ failedThisRun' = IF r.log.outcome = "failed" THEN failedThisRun \cup {m}
                      ELSE failedThisRun

\* a fresh process running BuildModule or BuildAndTestModule:
\* newModuleBuilder loads the modules, NewBuildLog
StartRun ==
  /\ pc = "idle"
  /\ runs < MaxRuns
  /\ runs' = runs + 1
  /\ command' \in {"build", "test"}
  /\ errorCount' = 0
  /\ okThisRun' = {}
  /\ failedThisRun' = {}
  /\ cur' = 1
  /\ pending' = <<>>
  /\ pc' = "resolve"
  /\ report' = NoReport
  /\ UNCHANGED <<buildModules, files, build, clock, lastBuild, changed,
                 References, moduleInfo, Dependencies, repoPoms, poms, idleForBuild>>

\* `references, err := module.GetModuleReferencesInBuildOrder()` and the
\* CheckError that follows it
ResolveReferences ==
  /\ pc = "resolve"
  /\ LET r == GetModuleReferencesInBuildOrder(References, buildModules[cur])
     IN IF r.ok
        THEN /\ pending' = r.list
             /\ pc' = "build"
             /\ UNCHANGED <<errorCount, cur, Dependencies, poms>>
        ELSE /\ errorCount' = errorCount + 1
             /\ ProcessEnds(Dependencies)
  /\ UNCHANGED <<buildModules, files, build, clock, lastBuild, changed,
                 okThisRun, failedThisRun, runs, report, command,
                 References, moduleInfo, repoPoms, idleForBuild>>

\* `b.builder.Build(ref)` and the check of logger.Failed() that follows it
BuildReference ==
  /\ pc = "build"
  /\ pending # <<>>
  /\ \E fail \in ToolFailures :
       \E r \in {JavaBuild(Head(pending), fail, Dependencies, poms)} :
          /\ ApplyBuild(Head(pending), r)
          /\ IF r.exits
             THEN ProcessEnds(r.D)
             ELSE /\ Dependencies' = r.D
                  /\ poms' = r.cache
                  /\ IF Failed(errorCount + r.errors)
                     THEN BuildReturns
                     ELSE pc' = "build" /\ pending' = Tail(pending) /\ UNCHANGED cur
  /\ UNCHANGED <<buildModules, files, clock, runs, report, command,
                 References, moduleInfo, repoPoms, idleForBuild>>

\* `b.builder.Build(module)` for the target, then on to the next module
BuildTarget ==
  /\ pc = "build"
  /\ pending = <<>>
  /\ \E fail \in ToolFailures :
       \E r \in {JavaBuild(buildModules[cur], fail, Dependencies, poms)} :
          /\ ApplyBuild(buildModules[cur], r)
          /\ IF r.exits
             THEN ProcessEnds(r.D)
             ELSE /\ Dependencies' = r.D
                  /\ poms' = r.cache
                  /\ IF cur + 1 > Len(buildModules)
                     THEN /\ pc' = IF command = "test" THEN "test" ELSE "finish"
                          /\ cur' = IF command = "test" THEN 1 ELSE cur + 1
                          /\ UNCHANGED pending
                     ELSE pc' = "resolve" /\ cur' = cur + 1 /\ UNCHANGED pending
  /\ UNCHANGED <<buildModules, files, clock, runs, report, command,
                 References, moduleInfo, repoPoms, idleForBuild>>

\* `builder.builder.RunTest(module)` of BuildAndTestModule: without a test
\* framework among the module's dependencies an error is logged; a failed
\* classpath computation goes to CheckError; the outcome of the test runner
\* goes to task.Done
RunTest ==
  /\ pc = "test"
  /\ LET m == buildModules[cur]
         next == /\ cur' = cur + 1
                 /\ pc' = IF cur + 1 > Len(buildModules) THEN "finish" ELSE "test"
                 /\ UNCHANGED pending
     IN IF ~detectTestFramework(Dependencies[m])
        THEN errorCount' = errorCount + 1 /\ next /\ UNCHANGED <<Dependencies, poms>>
        ELSE \E cp \in {getBuildDependencies(m, Dependencies, poms)} :
                IF ~cp.ok
                THEN errorCount' = errorCount + 1 /\ ProcessEnds(cp.D)
                ELSE /\ \E passed \in BOOLEAN :
                          errorCount' = errorCount + (IF passed THEN 0 ELSE 1)
                     /\ Dependencies' = cp.D
                     /\ poms' = cp.cache
                     /\ next
  /\ UNCHANGED <<buildModules, files, build, clock, lastBuild, changed,
                 okThisRun, failedThisRun, runs, report, command,
                 References, moduleInfo, repoPoms, idleForBuild>>

\* logger.BuildFinish(): the run reports its error count and the process
\* ends, and with it the loader's modules and the driver's position
BuildFinish ==
  /\ pc = "finish"
  /\ report' = [finished |-> TRUE, errors |-> errorCount]
  /\ ProcessEnds(Dependencies)
  /\ UNCHANGED <<buildModules, files, build, clock, errorCount,
                 lastBuild, changed, okThisRun, failedThisRun, runs, command,
                 References, moduleInfo, repoPoms, idleForBuild>>

\* what java.Builder.Clean leaves of a build directory: os.RemoveAll removes
\* it, or returns an error, having removed nothing (fail = "remove") or the
\* files and not the directory (fail = "remove partly")
CleanDir(b, fail) == IF fail = "none" THEN NoBuildDir ELSE RemoveAllFailed(b, fail)

\* builder.Clean(path): a fresh process removes the build directory of every
\* build module, the error of a removal goes to task.Done, then BuildFinish
Clean ==
  /\ pc = "idle"
  /\ runs < MaxRuns
  /\ runs' = runs + 1
  /\ command' = "clean"
  /\ \E failing \in SUBSET {m \in Range(buildModules) : build[m].dir} :
       /\ \E partly \in SUBSET failing :
            build' = [m \in DOMAIN build |->
                        IF m \notin Range(buildModules) THEN build[m]
                        ELSE CleanDir(build[m],
                                      IF m \in partly THEN "remove partly"
                                      ELSE IF m \in failing THEN "remove"
                                      ELSE "none")]
       /\ lastBuild' = [m \in DOMAIN lastBuild |->
                          IF m \in Range(buildModules)
                          THEN [outcome |-> IF m \in failing THEN "clean failed"
                                            ELSE "cleaned",
                                at |-> "cleaning build dir", exits |-> FALSE,
                                compiled |-> FALSE, jarred |-> FALSE,
                                oldHash |-> ReadFileAsString(build[m]), hash |-> <<>>,
                                prev |-> lastBuild[m].outcome,
                                prevAt |-> lastBuild[m].at, changes |-> changed[m]]
                          ELSE lastBuild[m]]
       /\ errorCount' = Cardinality(failing)
       /\ report' = [finished |-> TRUE, errors |-> Cardinality(failing)]
  /\ changed' = [m \in DOMAIN changed |->
                   IF m \in Range(buildModules) THEN {} ELSE changed[m]]
  /\ okThisRun' = {}
  /\ failedThisRun' = {}
  /\ UNCHANGED <<buildModules, files, clock, pc, cur, pending,
                 References, moduleInfo, Dependencies, repoPoms, poms, idleForBuild>>

(***************************************************************************)
(* The developer between two runs                                          *)
(***************************************************************************)
Retime(list) == [i \in 1..Len(list) |-> [list[i] EXCEPT !.mtime = clock + 1]]

EditFiles(m, f, kind) ==
  /\ pc = "idle"
  /\ clock < MaxClock
  /\ clock' = clock + 1
  /\ files' = [files EXCEPT ![m] = f]
  /\ changed' = [changed EXCEPT ![m] = @ \cup {kind}]
  /\ UNCHANGED <<buildModules, build, errorCount, pc, cur, pending, lastBuild,
                 okThisRun, failedThisRun, runs, report, command,
                 References, moduleInfo, Dependencies, repoPoms, poms, idleForBuild>>

\* a source file gets a new modification time, its content stays
TouchSource ==
  \E m \in DOMAIN files :
    /\ files[m].sources # <<>>
    /\ EditFiles(m, [files[m] EXCEPT !.sources = Retime(@)], "source")

\* a matched resource file gets a new modification time
TouchResource ==
  \E m \in DOMAIN files :
    /\ files[m].resources # <<>>
    /\ EditFiles(m, [files[m] EXCEPT !.resources = Retime(@)], "resource")

\* the files a resource pattern matches are deleted
RemoveResource ==
  \E m \in DOMAIN files :
    /\ files[m].resources # <<>>
    /\ EditFiles(m, [files[m] EXCEPT !.resources = <<>>], "resource")

\* the module descriptor is edited (the next run loads the new bytes)
EditDescriptor ==
  \E m \in DOMAIN files :
    EditFiles(m, [files[m] EXCEPT !.descriptor = clock + 1], "descriptor")

(***************************************************************************)
(* Specification of build runs over a project of three modules             *)
(***************************************************************************)
BuildIds == 1..3

\* build list, references and the dependencies of module 3 of the projects
\* explored, as newModuleBuilder hands them over: LoadProject has returned,
\* so the references form no cycle; g:x:2 is in no repository
Projects ==
  { [mods |-> <<1, 2>>, refs |-> << <<>>, <<3>>, <<>> >>, deps3 |-> <<>>],
    [mods |-> <<1>>, refs |-> << <<2>>, <<3>>, <<>> >>, deps3 |-> <<>>],
    [mods |-> <<1, 2>>, refs |-> << <<3>>, <<3>>, <<>> >>,
     deps3 |-> <<DeclaredDep(<<"g", "x", "2">>)>>],
    [mods |-> <<2, 1>>, refs |-> << <<>>, <<>>, <<>> >>, deps3 |-> <<>>],
    [mods |-> <<3, 1>>, refs |-> << <<3>>, <<>>, <<>> >>, deps3 |-> <<>>] }

\* the test framework module 2 depends on
JUnit == <<"junit", "junit", "4">>

SourceFile == [path |-> "src/A.java", mtime |-> 0]
ResourceFile == [path |-> "/res/app.properties", mtime |-> 0, isDir |-> FALSE]

InitBuild ==
  /\ NoTools
  /\ \E p \in Projects :
       /\ buildModules = p.mods
       /\ References = p.refs
       /\ Dependencies = << <<>>, <<DeclaredDep(JUnit)>>, p.deps3 >>
  /\ moduleInfo = [m \in BuildIds |->
                     [dir |-> <<"m1", "m2", "m3">>[m], group |-> "g",
                      name |-> <<"m1", "m2", "m3">>[m], version |-> "1"]]
  /\ repoPoms = [c \in Fetchable \cup {JUnit} |->
                  [packaging |-> "jar", deps |-> <<>>, parent |-> <<>>]]
  /\ files = << [descriptor |-> 0, sources |-> <<SourceFile>>, pattern |-> TRUE,
                 resources |-> <<ResourceFile>>],
                [descriptor |-> 0, sources |-> <<SourceFile>>, pattern |-> FALSE,
                 resources |-> <<>>],
                [descriptor |-> 0, sources |-> <<>>, pattern |-> FALSE,
                 resources |-> <<>>] >>
  /\ build = [m \in BuildIds |-> NoBuildDir]
  /\ clock = 0
  /\ errorCount = 0
  /\ pc = "idle"
  /\ cur = 0
  /\ pending = <<>>
  /\ lastBuild = [m \in BuildIds |->
                    [outcome |-> "none", at |-> "", exits |-> FALSE, compiled |-> FALSE,
                     jarred |-> FALSE, oldHash |-> <<>>, hash |-> <<>>, prev |-> "none",
                     prevAt |-> "", changes |-> {}]]
  /\ changed = [m \in BuildIds |-> {}]
  /\ okThisRun = {}
  /\ failedThisRun = {}
  /\ runs = 0
  /\ report = NoReport
  /\ command = ""
  /\ classpath = NoClasspath
  /\ walk = NoWalk
  /\ orderResult = NotCalled
  /\ NoLoader
  /\ NoRepo

NextBuild ==
  \/ StartRun
  \/ ResolveReferences
  \/ BuildReference
  \/ BuildTarget
  \/ RunTest
  \/ BuildFinish
  \/ Clean
  \/ TouchSource
  \/ TouchResource
  \/ RemoveResource
  \/ EditDescriptor

SpecBuild == InitBuild /\ [][NextBuild]_vars

(***************************************************************************)
(* Properties of the build gate and of build runs                          *)
(***************************************************************************)
Succeeded(outcome) == outcome \in {"built", "up to date"}

\* a complete digest, as opposed to an empty or truncated hash file
CompleteDigest(h) == \E bytes \in {h[i] : i \in 2..Len(h)} : h = Sha1Hex(bytes)

Attempted == okThisRun \cup failedThisRun

\* the steps before the up-to-date check that read the file system
ReadSteps ==
  {"finding java sources", "getting relative path for source", "reading build hash"}

\* the record is the report of a Build, not of a Clean
ByBuild(l) == l.outcome \in {"built", "up to date", "failed"}

\* the steps that replace the old build directory
DirSteps == {"removing build dir", "creating build dir"}

\* C4: a Build of a module whose previous Build succeeded and whose
\* descriptor, sources and resources did not change since reports "up to
\* date" (unless the sources or the hash file cannot be read) and starts
\* neither the compiler nor the jar tool; if only the modification time of
\* its source files changed, the Build is not up to date, computes another
\* digest and, once the build directory is replaced, goes on to compile.
C4_BuildGate ==
  \A m \in DOMAIN lastBuild :
    LET l == lastBuild[m]
    IN /\ (ByBuild(l) /\ Succeeded(l.prev) /\ l.changes = {})
            => /\ l.outcome = "up to date" \/ (l.outcome = "failed" /\ l.at \in ReadSteps)
               /\ ~l.compiled /\ ~l.jarred
       /\ (ByBuild(l) /\ Succeeded(l.prev) /\ l.changes = {"source"})
            => /\ l.outcome # "up to date"
               /\ l.at \notin ReadSteps => l.hash # l.oldHash
               /\ l.at \notin ReadSteps \cup DirSteps
                    => (l.compiled \/ l.at = "compile java sources")

\* one module was found up to date on an unchanged rebuild while another,
\* whose source was touched, was compiled and packaged again
C4_Witness ==
  \E m, n \in DOMAIN lastBuild :
    /\ lastBuild[m].prev = "built" /\ lastBuild[m].changes = {}
    /\ lastBuild[m].outcome = "up to date"
    /\ lastBuild[n].prev = "built" /\ lastBuild[n].changes = {"source"}
    /\ lastBuild[n].outcome = "built" /\ lastBuild[n].compiled

\* a failed Build has not put the digest of its inputs on disk, and a Build
\* that reports "built" has compiled the sources, packaged the jar, written
\* the pom and then the digest
FingerprintWrittenLast(m) ==
  LET l == lastBuild[m]
  IN /\ l.outcome = "failed"
          => (ReadFileAsString(build[m]) = l.hash => l.hash = l.oldHash)
     /\ l.outcome = "built"
          => /\ ReadFileAsString(build[m]) = l.hash
             /\ build[m].jar /\ build[m].pom /\ l.jarred
             /\ files[m].sources # <<>> => l.compiled

\* C7 as stated: the hash file holds the digest a Build computed only if
\* that Build succeeded, and after a Build that failed at any step the next
\* Build of the unchanged module is not up to date.
C7_FingerprintLast ==
  \A m \in DOMAIN lastBuild :
    /\ FingerprintWrittenLast(m)
    /\ (lastBuild[m].prev = "failed" /\ lastBuild[m].changes = {})
         => lastBuild[m].outcome # "up to date"

\* C7 as the code has it: the hash file holds the digest a Build computed
\* only if that Build succeeded; after a Build that failed at or after the
\* up-to-date check, or for want of a resource file, the next Build of the
\* unchanged module is not up to date. (A Build that could not read the
\* sources or the hash file leaves the build directory as it was, digest
\* included.)
C7_FingerprintLastAfterGate ==
  \A m \in DOMAIN lastBuild :
    /\ FingerprintWrittenLast(m)
    /\ (lastBuild[m].prev = "failed" /\ lastBuild[m].changes = {}
          /\ lastBuild[m].prevAt \notin ReadSteps)
         => lastBuild[m].outcome # "up to date"

\* a module whose compilation failed was built again, unchanged, and only
\* then got its digest
C7_Witness ==
  \E m \in DOMAIN lastBuild :
    /\ lastBuild[m].prev = "failed" /\ lastBuild[m].changes = {}
    /\ lastBuild[m].prevAt = "compile java sources"
    /\ lastBuild[m].outcome = "built"
    /\ lastBuild[m].oldHash = <<>>
    /\ ReadFileAsString(build[m]) = lastBuild[m].hash

\* C8 as stated: a failed Build leaves the digest that was on disk when it
\* started in place, unmodified.
C8_StaleDigestKept ==
  \A m \in DOMAIN lastBuild :
    (lastBuild[m].outcome = "failed" /\ CompleteDigest(lastBuild[m].oldHash))
      => (build[m].hashFile /\ build[m].hash = lastBuild[m].oldHash)

\* C8 as the code has it: a Build that fails before the up-to-date check
\* leaves the hash file as it was; a Build that cannot remove the build
\* directory leaves the old digest or none; a Build that fails at a later
\* step has removed the build directory with the old digest and leaves no
\* complete digest behind.
C8_StaleDigestRemoved ==
  \A m \in DOMAIN lastBuild :
    LET l == lastBuild[m]
    IN l.outcome = "failed"
         => IF l.at \in ReadSteps \cup {"finding embeds"}
            THEN ReadFileAsString(build[m]) = l.oldHash
            ELSE IF l.at = "removing build dir"
            THEN ReadFileAsString(build[m]) \in {l.oldHash, <<>>} /\ build[m].dir
            ELSE /\ ~CompleteDigest(ReadFileAsString(build[m]))
                 /\ l.at # "creating build dir" => build[m].dir

\* a module with a digest on disk failed to compile and has no hash file
C8_Witness ==
  \E m \in DOMAIN lastBuild :
    /\ lastBuild[m].outcome = "failed"
    /\ lastBuild[m].at = "compile java sources"
    /\ CompleteDigest(lastBuild[m].oldHash)
    /\ ~build[m].hashFile

\* C9: whenever a module has been handed to Build in a run, every module it
\* references, directly or transitively, has been built or found up to date
\* earlier in that run, and none of them has failed.
C9_ReferencesFirst ==
  \A x \in Attempted :
    /\ ReachPlus(References, x) \subseteq okThisRun
    /\ ReachPlus(References, x) \cap failedThisRun = {}

\* the chain 1 -> 2 -> 3: an earlier run stopped at the failure of 2 without
\* building 1, this run has built 3, 2 and 1
C9_Witness ==
  /\ References[1] = <<2>> /\ References[2] = <<3>>
  /\ okThisRun = {1, 2, 3}
  /\ lastBuild[2].prev = "failed"
  /\ lastBuild[1].prev = "none" /\ lastBuild[1].outcome = "built"

\* C10 as stated: when a run in which a module failed to build has ended,
\* it has reported a non-zero failure count and every module of the project
\* that does not reference a failed module has been attempted.
C10_RemainingAttempted ==
  (pc = "idle" /\ failedThisRun # {})
    => /\ report.finished /\ report.errors > 0
       /\ \A t \in Range(buildModules) :
            ReachPlus(References, t) \cap failedThisRun = {} => t \in Attempted

\* C25: a module that a run reports up to date references no module that
\* the same run has built anew: its output was produced against the
\* outputs its referenced modules have now.
C25_UpToDateAgainstCurrentOutputs ==
  \A m \in okThisRun :
    lastBuild[m].outcome = "up to date"
      => \A r \in ReachPlus(References, m) \cap okThisRun : lastBuild[r].outcome # "built"

(***************************************************************************)
(* maven.LocalRepository.getFile: the local repository and its remotes     *)
(***************************************************************************)
\* what one fetchFromRemote call can do: write the whole body and return nil,
\* fail before anything is written (no connection, status other than 200),
\* or fail while copying the body, part of which is in the file by then
RemoteOutcomes == {"ok", "not found", "broken"}

\* the files getFile is asked for: jarFile and pomFile of one artifact
RepoFileNames == {"pom", "jar"}

\* filepath.Join(c.artifactDir(groupID, artifactID, version), file)
artifactPath(g, a, v, file) == <<"repository", g, a, v, file>>

fileExists(fs, path) == path \in DOMAIN fs

NoError == [kind |-> "none", path |-> <<>>]

\* os.Remove(path)
RemoveFile(fs, path) == [q \in DOMAIN fs \ {path} |-> fs[q]]

\* faulty variant: the file of a failed download is left behind
RemoveFileSkipped(fs, path) == fs

\* what getFile does with the file when every remote has failed
RemoveFailedDownload(fs, path) == RemoveFile(fs, path)

\* faulty variant: the error of io.Copy is not looked at
fetchFromRemoteCopyUnchecked(remote, outcome, bytes) ==
  IF outcome = "ok"
  THEN [ok |-> TRUE, bytes |-> Append(bytes, <<remote, "whole">>)]
  ELSE IF outcome = "broken"
  THEN [ok |-> TRUE, bytes |-> Append(bytes, <<remote, "part">>)]
  ELSE [ok |-> FALSE, bytes |-> bytes]

\* fetchFromRemote(remote, ..., outFile): `bytes` is what the open file holds
\* when the call starts. http.Get fails or the status is not 200: nothing
\* is written; io.Copy fails: part of the body is in the file; else the
\* whole body is, after what the file held
fetchFromRemote(remote, outcome, bytes) ==
  IF outcome = "ok"
  THEN [ok |-> TRUE, bytes |-> Append(bytes, <<remote, "whole">>)]
  ELSE IF outcome = "broken"
  THEN [ok |-> FALSE, bytes |-> Append(bytes, <<remote, "part">>)]
  ELSE [ok |-> FALSE, bytes |-> bytes]

RECURSIVE fetchFromRemotes(_, _, _, _, _)
\* the loop over c.remotes from remote i on: `bytes` is what the open file
\* holds, `tried` the remotes asked so far. Yields whether err is nil after
\* the loop, the bytes of the file and the remotes asked.
fetchFromRemotes(rs, outs, i, bytes, tried) ==
  IF i > Len(rs) THEN [ok |-> tried = <<>>, bytes |-> bytes, tried |-> tried]
  ELSE LET \* `if err == nil { break }`
           next(r) ==
             IF r.ok THEN [ok |-> TRUE, bytes |-> r.bytes, tried |-> Append(tried, i)]
             ELSE fetchFromRemotes(rs, outs, i + 1, r.bytes, Append(tried, i))
       IN next(fetchFromRemote(rs[i], outs[i], bytes))

FetchReport(file, hit, ok, path, err, outs, tried) ==
  [called |-> TRUE, file |-> file, hit |-> hit, ok |-> ok, path |-> path, err |-> err,
   outcomes |-> outs, tried |-> tried, earlier |-> NoEarlierFetch]

\* getFile past the creation of the destination file: d is what the loop
\* over the remotes left
getFileFetched(fs, file, path, outs, d) ==
  IF d.ok
  THEN [files |-> (path :> d.bytes) @@ fs,
        result |-> FetchReport(file, FALSE, TRUE, path, NoError, outs, d.tried)]
  ELSE [files |-> RemoveFailedDownload((path :> d.bytes) @@ fs, path),
        result |-> FetchReport(file, FALSE, FALSE, path,
                               [kind |-> "failed to fetch", path |-> path], outs, d.tried)]

\* getFile(groupID, artifactID, version, file) on the files fs; `fault` names
\* the file-system call that fails if reached (MkdirAll, OpenFile), outs the
\* outcome each remote would give
getFile(fs, g, a, v, file, fault, outs) ==
  IF fileExists(fs, artifactPath(g, a, v, file))
  THEN [files |-> fs,
        result |-> FetchReport(file, TRUE, TRUE, artifactPath(g, a, v, file), NoError,
                               outs, <<>>)]
  ELSE IF fault = "mkdir"
  THEN [files |-> fs,
        result |-> FetchReport(file, FALSE, FALSE, <<>>,
                               [kind |-> "mkdir", path |-> <<>>], outs, <<>>)]
  ELSE IF fault = "open"
  THEN [files |-> fs,
        result |-> FetchReport(file, FALSE, FALSE, artifactPath(g, a, v, file),
                               [kind |-> "open", path |-> artifactPath(g, a, v, file)],
                               outs, <<>>)]
  ELSE getFileFetched(fs, file, artifactPath(g, a, v, file), outs,
                      fetchFromRemotes(remotes, outs, 1, <<>>, <<>>))

\* `remotes: []string{MAVEN_CENTRAL_URL}`: the one list OpenLocalRepository
\* and the tests of the package configure
RemoteLists == {<<"central">>}

InitFetch ==
  /\ NoTools
  /\ remotes \in RemoteLists
  /\ repoFiles \in {<<>>, artifactPath("g", "a", "1", "pom") :> <<<<"installed", "whole">>>>}
  /\ fetchResult = NoFetch
  /\ installResult = NoInstall
  /\ NoPoms
  /\ References = <<>>
  /\ orderResult = NotCalled
  /\ NoLoader
  /\ NoDeps
  /\ NoBuild

\* GetPOM or GetJAR asks for a file of g:a:1; the report keeps what the call
\* before it did
CallGetFile ==
  \E file \in RepoFileNames, fault \in {"none", "mkdir", "open"},
     outs \in [1..Len(remotes) -> RemoteOutcomes] :
    \E r \in {getFile(repoFiles, "g", "a", "1", file, fault, outs)} :
       /\ repoFiles' = r.files
       /\ fetchResult' = [r.result EXCEPT !.earlier =
                            [called |-> fetchResult.called, file |-> fetchResult.file,
                             ok |-> fetchResult.ok, outcomes |-> fetchResult.outcomes]]
       /\ UNCHANGED <<remotes, installResult, idleForFetch>>

NextFetch == CallGetFile

SpecFetch == InitFetch /\ [][NextFetch]_vars

IsPrefix(s, t) == Len(s) <= Len(t) /\ \A i \in 1..Len(s) : s[i] = t[i]

\* C11: a getFile call that misses the local file asks the remotes in the
\* declared order, each once at most, and stops after the first that
\* succeeds; it succeeds exactly if one remote did; if all failed every
\* remote was asked, the error names the path and the file is gone; after
\* any getFile error there is no file at the destination path.
C11_RemotesInOrder ==
  (fetchResult.called /\ ~fetchResult.hit) =>
    LET r == fetchResult
        n == Len(r.tried)
    IN /\ \A i \in 1..n : r.tried[i] = i
       /\ n <= Len(remotes)
       /\ \A i \in 1..(n - 1) : r.outcomes[i] # "ok"
       /\ r.ok <=> (n > 0 /\ r.outcomes[n] = "ok")
       /\ ~r.ok => r.err.kind # "none"
       /\ (~r.ok /\ r.err.kind = "failed to fetch")
            => (n = Len(remotes) /\ r.err.path = artifactPath("g", "a", "1", r.file))
       /\ ~r.ok => ~fileExists(repoFiles, artifactPath("g", "a", "1", r.file))

\* the file was missing and the download from the configured remote broke
\* off: the remote was asked once, the error names the path and no file is
\* left
C11_Witness ==
  /\ fetchResult.called /\ ~fetchResult.hit /\ ~fetchResult.ok
  /\ fetchResult.tried = <<1>>
  /\ fetchResult.outcomes = <<"broken">>
  /\ fetchResult.err = [kind |-> "failed to fetch",
                        path |-> artifactPath("g", "a", "1", fetchResult.file)]
  /\ ~fileExists(repoFiles, artifactPath("g", "a", "1", fetchResult.file))

(***************************************************************************)
(* maven.POM.Expand and maven.ResolveMavenFields: ${key} placeholders      *)
(***************************************************************************)
\* characters of a string to expand
MaxStringLen == 4
\* `tries := 5`
ExpandTries == 5

\* strings are sequences of characters; the characters a string handed to
\* Expand is drawn from
Chars == {"$", "{", "}", "a", "b"}

\* the characters of the class [a-zA-Z0-9._-] of expandVarPattern and mavenVarPattern
KeyChars ==
  {"a", "b", "c", "d", "e", "f", "g", "h", "i", "j", "k", "l", "m",
   "n", "o", "p", "q", "r", "s", "t", "u", "v", "w", "x", "y", "z",
   "A", "B", "C", "D", "E", "F", "G", "H", "I", "J", "K", "L", "M",
   "N", "O", "P", "Q", "R", "S", "T", "U", "V", "W", "X", "Y", "Z",
   "0", "1", "2", "3", "4", "5", "6", "7", "8", "9", ".", "_", "-"}

\* first index from j on whose character is no key character
RECURSIVE KeyEnd(_, _)
KeyEnd(s, j) == IF j > Len(s) \/ s[j] \notin KeyChars THEN j ELSE KeyEnd(s, j + 1)

\* index of the "}" that ends a match of \$\{([a-zA-Z0-9._-]+)\} starting at
\* index i, 0 if none starts there
MatchEnd(s, i) ==
  IF i + 3 <= Len(s) /\ s[i] = "$" /\ s[i + 1] = "{"
        /\ KeyEnd(s, i + 2) > i + 2 /\ KeyEnd(s, i + 2) <= Len(s)
        /\ s[KeyEnd(s, i + 2)] = "}"
  THEN KeyEnd(s, i + 2)
  ELSE 0

\* POM.GetProperty(key): the first property of that name
HasProperty(props, key) == \E k \in 1..Len(props) : props[k].key = key
GetProperty(props, key) ==
  props[CHOOSE k \in 1..Len(props) :
          props[k].key = key /\ \A j \in 1..(k - 1) : props[j].key # key].value

\* faulty variant: a placeholder of an unknown key is dropped
ReplacementOrNothing(props, match, key) ==
  IF HasProperty(props, key) THEN GetProperty(props, key) ELSE <<>>

\* the function handed to ReplaceAllStringFunc
Replacement(props, match, key) ==
  IF HasProperty(props, key) THEN GetProperty(props, key) ELSE match

\* expandVarPattern.ReplaceAllStringFunc(s, ...) from index i on: matches are
\* taken leftmost first and do not overlap
RECURSIVE ReplaceAllFrom(_, _, _)
ReplaceAllFrom(props, s, i) ==
  IF i > Len(s) THEN <<>>
  ELSE IF MatchEnd(s, i) = 0 THEN <<s[i]>> \o ReplaceAllFrom(props, s, i + 1)
  ELSE Replacement(props, SubSeq(s, i, MatchEnd(s, i)), SubSeq(s, i + 2, MatchEnd(s, i) - 1))
         \o ReplaceAllFrom(props, s, MatchEnd(s, i) + 1)

\* ResolveMavenFields(input, properties): one pass
ResolveMavenFields(input, props) == ReplaceAllFrom(props, input, 1)

\* strings.Contains(s, "${")
ContainsPlaceholderStart(s) == \E i \in 1..(Len(s) - 1) : s[i] = "$" /\ s[i + 1] = "{"

RECURSIVE expandLoop(_, _, _, _)
\* faulty variant: one pass, whatever is left
expandLoopOnce(props, result, tries, passes) ==
  [result |-> ReplaceAllFrom(props, result, 1), passes |-> passes + 1]

\* the loop of Expand: `tries` passes are left, `passes` have been made
expandLoop(props, result, tries, passes) ==
  IF ~ContainsPlaceholderStart(result) THEN [result |-> result, passes |-> passes]
  ELSE IF tries - 1 = 0
  THEN [result |-> ReplaceAllFrom(props, result, 1), passes |-> passes + 1]
  ELSE expandLoop(props, ReplaceAllFrom(props, result, 1), tries - 1, passes + 1)

\* POM.Expand(value)
Expand(props, value) == expandLoop(props, value, ExpandTries, 0).result

\* property values: plain text, references to a and b (self-referential and
\* mutually referential tables), a value that doubles, pieces of a placeholder
PropValues ==
  { <<"b">>, <<"$", "{", "a", "}">>, <<"$", "{", "b", "}">>,
    <<"$", "{", "a", "}", "$", "{", "a", "}">>, <<"$">> }

PropTables ==
  { va \o vb : va \in {<<>>} \cup {<<[key |-> <<"a">>, value |-> v]>> : v \in PropValues},
               vb \in {<<>>} \cup {<<[key |-> <<"b">>, value |-> v]>> : v \in PropValues} }

InitExpand ==
  /\ NoTools
  /\ expandInput \in [props : PropTables, value : SeqsUpTo(Chars, MaxStringLen)]
  /\ expandResult = NoExpand
  /\ NoGetPOM
  /\ remotes = <<>>
  /\ repoFiles = <<>>
  /\ fetchResult = NoFetch
  /\ installResult = NoInstall
  /\ References = <<>>
  /\ orderResult = NotCalled
  /\ NoLoader
  /\ NoDeps
  /\ NoBuild

\* a version string is expanded against the properties of a document
CallExpand ==
  /\ ~expandResult.called
  /\ expandResult' =
       [called |-> TRUE,
        result |-> Expand(expandInput.props, expandInput.value),
        passes |-> expandLoop(expandInput.props, expandInput.value, ExpandTries, 0).passes,
        resolved |-> ResolveMavenFields(expandInput.value, expandInput.props)]
  /\ UNCHANGED <<expandInput, pomDocs, pomHeap, poms, pomReturned, pomResult, orderVars,
                  loadVars, depVars, buildVars, repoVars, walkVars,
                    toolVars>>

NextExpand == CallExpand

SpecExpand == InitExpand /\ [][NextExpand]_vars

\* the string after n substitution passes
RECURSIVE Passes(_, _, _)
Passes(props, s, n) == IF n = 0 THEN s ELSE Passes(props, ResolveMavenFields(s, props), n - 1)

\* keys of the placeholders of s
MatchedKeys(s) ==
  {SubSeq(s, i + 2, MatchEnd(s, i) - 1) : i \in {j \in 1..Len(s) : MatchEnd(s, j) # 0}}

DefinedKeys(props) == {props[k].key : k \in 1..Len(props)}

\* C15: Expand makes at most 5 substitution passes and stops earlier exactly
\* when no "${" is left; what it returns is the string after that many
\* passes, with whatever placeholders remain, also for self-referential and
\* mutually referential properties.
C15_ExpandTerminates ==
  expandResult.called =>
    LET n == expandResult.passes
        p == expandInput.props
    IN /\ n <= ExpandTries
       /\ expandResult.result = Passes(p, expandInput.value, n)
       /\ n < ExpandTries => ~ContainsPlaceholderStart(expandResult.result)
       /\ \A k \in 0..(n - 1) : ContainsPlaceholderStart(Passes(p, expandInput.value, k))

\* a = ${b}, b = ${a}: expanding ${a} uses up the 5 passes and returns a
\* placeholder
C15_Witness ==
  /\ expandResult.called
  /\ expandInput.props = <<[key |-> <<"a">>, value |-> <<"$", "{", "b", "}">>],
                           [key |-> <<"b">>, value |-> <<"$", "{", "a", "}">>]>>
  /\ expandInput.value = <<"$", "{", "a", "}">>
  /\ expandResult.passes = ExpandTries
  /\ expandResult.result = <<"$", "{", "b", "}">>

\* C16: a string none of whose placeholders names a defined key comes back
\* unchanged from Expand and from ResolveMavenFields.
C16_ExpandIdempotent ==
  (expandResult.called /\ MatchedKeys(expandInput.value) \cap DefinedKeys(expandInput.props) = {})
    => /\ expandResult.result = expandInput.value
       /\ expandResult.resolved = expandInput.value

\* ${a} with only b defined round-trips unchanged
C16_Witness ==
  /\ expandResult.called
  /\ expandInput.value = <<"$", "{", "a", "}">>
  /\ DefinedKeys(expandInput.props) = {<<"b">>}
  /\ expandResult.result = expandInput.value

(***************************************************************************)
(* Specification of one module's transitive walk: its declared             *)
(* dependencies, and a repository whose documents declare dependencies     *)
(* with scopes, optional flags, missing versions, conflicts and cycles     *)
(***************************************************************************)
\* calls of ResolveDependencies for the module
MaxWalks == 2

WalkModule == 1

\* g:z:1 is in no repository
WalkCoords == {<<"g", "a", "1">>, <<"g", "a", "2">>, <<"g", "b", "1">>, <<"g", "c", "1">>,
               <<"g", "z", "1">>}
WalkFetchable == WalkCoords \ {<<"g", "z", "1">>}

\* a <dependency> element of a document with its scope and optional flag
PomEntry(c, scope, optional) ==
  [g |-> c[1], a |-> c[2], v |-> c[3], scope |-> scope, optional |-> optional]

\* entries of g:a:1: plain ones (one back to g:a:1, one to the other version
\* of a, one without a version), and passed-over ones (one whose document
\* declares g:c:1, one that cannot be fetched, one without a version)
WalkEntries ==
  {PomDep(c) : c \in WalkFetchable \cup {<<"g", "c", "">>}}
    \cup {PomEntry(<<"g", "c", "1">>, sc, "") : sc \in {"compile", "test", "provided"}}
    \cup {PomEntry(<<"g", "b", "1">>, "test", ""), PomEntry(<<"g", "z", "1">>, "test", ""),
          PomEntry(<<"g", "c", "">>, "test", ""), PomEntry(<<"g", "z", "1">>, "", "true")}

WalkRepositories ==
  {[c \in WalkFetchable |->
      [packaging |-> "jar",
       deps |-> IF c = <<"g", "a", "1">> THEN da
                ELSE IF c = <<"g", "b", "1">> THEN db
                ELSE IF c = <<"g", "a", "2">> THEN da2
                ELSE <<>>,
       parent |-> IF c = <<"g", "c", "1">> THEN pc1 ELSE <<>>]] :
    pc1 \in {<<>>, MissingParent},
    da \in {<<>>} \cup {<<x>> : x \in WalkEntries} \cup {<<x, y>> : x, y \in WalkEntries},
    db \in {<<>>, <<PomDep(<<"g", "a", "1">>)>>, <<PomDep(<<"g", "c", "1">>)>>,
            <<PomDep(<<"g", "c", "">>)>>, <<PomEntry(<<"g", "z", "1">>, "test", "")>>},
    da2 \in {<<>>, <<PomDep(<<"g", "b", "1">>)>>}}

WalkDeclared ==
  {<<>>} \cup {<<DeclaredDep(c)>> : c \in WalkCoords}
    \cup {<<DeclaredDep(c), DeclaredDep(d)>> : c, d \in WalkCoords}

InitWalk ==
  /\ NoTools
  /\ Dependencies \in {[m \in {WalkModule} |-> d] : d \in WalkDeclared}
  /\ repoPoms \in WalkRepositories
  /\ walk = NoWalk
  /\ moduleInfo = <<>>
  /\ classpath = NoClasspath
  /\ References = <<>>
  /\ orderResult = NotCalled
  /\ NoLoader
  /\ NoBuild
  /\ NoRepo

\* Build, RunTest or a referencing module's classpath walks the module's
\* dependencies
CallResolveDependencies ==
  \E r \in {ResolveDependencies(Dependencies[WalkModule], poms)} :
     /\ walk.calls < MaxWalks
     /\ walk' = [called |-> TRUE, calls |-> walk.calls + 1,
                 before |-> Dependencies[WalkModule], fetched |-> r.fetched,
                 err |-> r.err, detail |-> r.detail]
     /\ Dependencies' = [Dependencies EXCEPT ![WalkModule] = r.deps]
     /\ poms' = r.cache
     /\ UNCHANGED <<moduleInfo, repoPoms, classpath, orderVars, loadVars, buildVars,
                    repoVars, pomRest,
                    toolVars>>

NextWalk == CallResolveDependencies

SpecWalk == InitWalk /\ [][NextWalk]_vars

\* an entry the walk is to leave alone, and one that names a full coordinate
Excluded(d) == d.scope \in {"test", "provided"} \/ d.optional = "true"
Complete(d) == d.g # "" /\ d.a # "" /\ d.v # ""

\* the entries of a document the walk goes into
Walked(c) == {d \in Range(repoPoms[c].deps) : ~Excluded(d)}

\* coordinates the walk from the coordinates cs can come across
RECURSIVE WalkClosure(_, _)
WalkClosure(cs, n) ==
  IF n = 0 THEN cs
  ELSE LET nxt == cs \cup UNION {{GAV(d.g, d.a, d.v) : d \in Walked(c)} :
                                  c \in cs \cap DOMAIN repoPoms}
       IN IF nxt = cs THEN cs ELSE WalkClosure(nxt, n - 1)

DeclaredCoords(deps) == {GAV(deps[i].g, deps[i].a, deps[i].v) : i \in 1..Len(deps)}

\* nothing the walk from deps can come across is missing, names a missing
\* parent or is incomplete
WalkResolvable(deps) ==
  \A c \in WalkClosure(DeclaredCoords(deps), Cardinality(WalkCoords)) :
    /\ c \in DOMAIN repoPoms
    /\ ParentsExist(c, Cardinality(DOMAIN repoPoms))
    /\ \A d \in Walked(c) : Complete(d)

\* no group:artifact occurs twice in a list of coordinates
OncePerKey(f) ==
  \A i, j \in 1..Len(f) : (f[i][1] = f[j][1] /\ f[i][2] = f[j][2]) => i = j

\* every coordinate of f has the version of the first dependency of that
\* group:artifact in the tree `deps`, taken depth first
FirstVersions(f, deps) ==
  \A i \in 1..Len(f) : f[i][3] = FirstVersion(Flatten(deps), <<f[i][1], f[i][2]>>)

\* no dependency of the list was resolved by an earlier walk
Unresolved(deps) == \A i \in 1..Len(deps) : deps[i].path = <<>>

\* C18: a walk of a module fetches metadata for each group:artifact at most
\* once, namely for the first version met depth first, every later
\* occurrence of the key being skipped; and it ends without error on cyclic
\* declarations.
C18_FirstVersionOnly ==
  walk.called =>
    /\ OncePerKey(walk.fetched)
    /\ WalkResolvable(walk.before) => walk.err = "none"
    /\ walk.err = "none" => FirstVersions(walk.fetched, Dependencies[WalkModule])

\* coordinates of a list of dependencies or entries, in order
RECURSIVE CoordsOf(_)
CoordsOf(list) ==
  IF list = <<>> THEN <<>>
  ELSE <<GAV(Head(list).g, Head(list).a, Head(list).v)>> \o CoordsOf(Tail(list))

RECURSIVE NotExcluded(_)
\* the entries of a list that are not excluded, in order
NotExcluded(list) ==
  IF list = <<>> THEN <<>>
  ELSE IF Excluded(Head(list)) THEN NotExcluded(Tail(list))
  ELSE <<Head(list)>> \o NotExcluded(Tail(list))

\* what the walk may touch: the declared coordinates and whatever is
\* reachable from them through entries that are not excluded
Reachable(deps) == WalkClosure(DeclaredCoords(deps), Cardinality(WalkCoords))

\* jar paths a classpath built from the walked dependencies would hold
WalkJars(deps) == addPkgs(deps, 1, [seenDeps |-> <<>>, jars |-> {}]).jars

\* C19: the walk fetches, resolves and puts on the classpath nothing that is
\* declared with scope test or provided or with optional true, nor anything
\* reachable only through such an entry; in a walk that starts from
\* unresolved dependencies a resolved dependency gets as children exactly
\* the not excluded entries of its document.
C19_ScopeFilter ==
  walk.called =>
    LET tree == Flatten(Dependencies[WalkModule]) IN
    /\ \A i \in 1..Len(walk.fetched) : walk.fetched[i] \in Reachable(walk.before)
    /\ \A i \in 1..Len(tree) :
         GAV(tree[i].g, tree[i].a, tree[i].v) \in Reachable(walk.before)
    /\ \A p \in WalkJars(Dependencies[WalkModule]) :
         \E c \in Reachable(walk.before) : p = JarPath(c[1], c[2], c[3])
    /\ (walk.err = "none" /\ Unresolved(walk.before)) =>
         \A i \in 1..Len(tree) :
           tree[i].path # <<>> =>
             CoordsOf(tree[i].trans)
               = CoordsOf(NotExcluded(repoPoms[GAV(tree[i].g, tree[i].a, tree[i].v)].deps))

\* g:a:1 declares g:c:1 and, with scope test, g:z:1: one child, one more jar
C19_Witness ==
  /\ walk.called
  /\ walk.before = <<DeclaredDep(<<"g", "a", "1">>)>>
  /\ repoPoms[<<"g", "a", "1">>].deps
       = <<PomDep(<<"g", "c", "1">>), PomEntry(<<"g", "z", "1">>, "test", "")>>
  /\ walk.err = "none"
  /\ walk.fetched = <<<<"g", "a", "1">>, <<"g", "c", "1">>>>
  /\ Len(Dependencies[WalkModule][1].trans) = 1
  /\ Dependencies[WalkModule][1].trans[1].path = JarPath("g", "c", "1")
  /\ WalkJars(Dependencies[WalkModule]) = {JarPath("g", "a", "1"), JarPath("g", "c", "1")}

\* C12 as stated: when the walk succeeds, every dependency declared by every
\* document it fetched names a group, an artifact and a version; a declared
\* dependency that lacks one makes the walk fail.
C12_EveryDeclaredVersioned ==
  (walk.called /\ walk.err = "none") =>
    \A i \in 1..Len(walk.fetched) :
      \A d \in Range(repoPoms[walk.fetched[i]].deps) : Complete(d)

\* C12, amended: when the walk succeeds, every dependency that a fetched
\* document declares and that is not excluded by scope or optional flag
\* names a group, an artifact and a version; the walk asks the repository
\* for no incomplete coordinate, and an invalid-package error names the
\* incomplete entry and the dependency whose document declares it.
C12_WalkedVersioned ==
  walk.called =>
    /\ walk.err = "none" =>
         \A i \in 1..Len(walk.fetched) :
           walk.fetched[i] \in DOMAIN repoPoms
             /\ \A d \in Walked(walk.fetched[i]) : Complete(d)
    /\ \A i \in 1..Len(walk.fetched) :
         walk.fetched[i][1] # "" /\ walk.fetched[i][2] # "" /\ walk.fetched[i][3] # ""
    /\ walk.err = "invalid maven package" =>
         /\ Len(walk.detail) = 2
         /\ \E i \in 1..Len(walk.fetched) :
              /\ walk.detail[2] = walk.fetched[i]
              /\ \E d \in Walked(walk.fetched[i]) :
                   ~Complete(d) /\ walk.detail[1] = GAV(d.g, d.a, d.v)

\* g:b:1 declares g:c without a version: the walk of g:b:1 fails and names
\* both
C12_Witness ==
  /\ walk.called
  /\ walk.before = <<DeclaredDep(<<"g", "b", "1">>)>>
  /\ repoPoms[<<"g", "b", "1">>].deps = <<PomDep(<<"g", "c", "">>)>>
  /\ walk.err = "invalid maven package"
  /\ walk.detail = <<<<"g", "c", "">>, <<"g", "b", "1">>>>

\* C20: when the first load of a ModuleLoader fails, the error reaches the
\* caller and the module cache holds none of the modules created during
\* that load.
C20_NoPartialGraphCached ==
  (loads = 1 /\ callStack = <<>> /\ loadResult.status = "error")
    => /\ loadResult.err # "none"
       /\ loadResult.module = NoModule
       /\ DOMAIN modules = {}

(***************************************************************************)
(* LocalRepository.GetPOM: decoding, caching and normalising a document    *)
(***************************************************************************)
\* the property names GetPOM sets
ProjectVersion == <<"p", "r", "o", "j", "e", "c", "t", ".", "v", "e", "r", "s", "i", "o", "n">>
ProjectParentVersion ==
  <<"p", "r", "o", "j", "e", "c", "t", ".", "p", "a", "r", "e", "n", "t", ".",
    "v", "e", "r", "s", "i", "o", "n">>

\* "${" + key + "}"
Placeholder(key) == <<"$", "{">> \o key \o <<"}">>

\* `Parent *Dependency`: nil, or the one coordinate pointed to
NoParent == <<>>

\* POM.SetProperty(key, value): the first property of that name is
\* overwritten, a new one is appended
SetProperty(props, key, value) ==
  IF HasProperty(props, key)
  THEN LET k == CHOOSE k \in 1..Len(props) :
                  props[k].key = key /\ \A j \in 1..(k - 1) : props[j].key # key
       IN [props EXCEPT ![k].value = value]
  ELSE Append(props, [key |-> key, value |-> value])

RECURSIVE setProperties(_, _)
\* `for _, prop := range oldProps { child.SetProperty(prop.XMLName.Local, prop.Value) }`
setProperties(props, oldProps) ==
  IF oldProps = <<>> THEN props
  ELSE setProperties(SetProperty(props, Head(oldProps).key, Head(oldProps).value),
                     Tail(oldProps))

\* mergeParentProperties(child, parent): the properties the child ends with
mergeParentProperties(childProps, parentProps) == setProperties(parentProps, childProps)

\* two <dependency> elements of one group:artifact
SameKey(d, e) == d.GroupID = e.GroupID /\ d.ArtifactID = e.ArtifactID

RECURSIVE mergeParentDeps(_, _)
\* faulty variant: every entry of the parent is appended
mergeParentDepsAppendAll(child, parent) == child \o parent

\* mergeParentDeps(child, parent): the Dependencies the child ends with
mergeParentDeps(child, parent) ==
  IF parent = <<>> THEN child
  ELSE IF \E k \in 1..Len(child) : SameKey(Head(parent), child[k])
  THEN mergeParentDeps(child, Tail(parent))
  ELSE mergeParentDeps(Append(child, Head(parent)), Tail(parent))

\* POM.findDependency(groupID, artifactID): index of the first managed entry
\* of that group:artifact, 0 if there is none
findDependency(dm, g, a) ==
  IF \E k \in 1..Len(dm) : dm[k].GroupID = g /\ dm[k].ArtifactID = a
  THEN CHOOSE k \in 1..Len(dm) :
         /\ dm[k].GroupID = g /\ dm[k].ArtifactID = a
         /\ \A j \in 1..(k - 1) : ~(dm[j].GroupID = g /\ dm[j].ArtifactID = a)
  ELSE 0

\* the first loop over pom.Dependencies: a missing version is taken from the
\* managed entry of the same group:artifact
fillVersions(deps, dm) ==
  [i \in 1..Len(deps) |->
     IF deps[i].Version = <<>> /\ findDependency(dm, deps[i].GroupID, deps[i].ArtifactID) # 0
     THEN [deps[i] EXCEPT
             !.Version = dm[findDependency(dm, deps[i].GroupID, deps[i].ArtifactID)].Version]
     ELSE deps[i]]

\* the second loop over pom.Dependencies: non-empty versions are expanded
expandVersions(deps, props) ==
  [i \in 1..Len(deps) |->
     IF deps[i].Version # <<>>
     THEN [deps[i] EXCEPT !.Version = Expand(props, deps[i].Version)]
     ELSE deps[i]]

\* the repository as a GetPOM call finds and leaves it: the objects, the
\* cache, and what the call has read and merged so far
RepoState(hp, cache) == [heap |-> hp, poms |-> cache, read |-> <<>>, merges |-> <<>>]

\* `return nil, err` and `return pom, err` with an error
PomError(st, err) == [st |-> st, ok |-> FALSE, pom |-> 0, err |-> err]

\* a mutation of cacheDecoded that caches no document before its parent is
\* resolved
cacheDecodedNever(cache, gav, id, decodeErr) == cache

\* `if err == nil { c.poms[gav] = pom }`
cacheDecoded(cache, gav, id, decodeErr) ==
  IF decodeErr = "none" THEN (gav :> id) @@ cache ELSE cache

\* `pom.SetProperty("project.version", pom.Version)`
setProjectVersion(pom) ==
  [pom EXCEPT !.Properties = SetProperty(@, ProjectVersion, pom.Version)]

\* expandParentProperties after the parent is there: what the child object
\* `id` becomes given the parent object `pid` (which may be the child itself)
inheritFromParent(hp, id, pid) ==
  LET child == hp[id]
      parent == hp[pid]
      g == IF child.GroupID = "" THEN parent.GroupID ELSE child.GroupID
      v == IF child.Version = <<>> THEN parent.Version ELSE child.Version
      parentVersion == IF pid = id THEN v ELSE parent.Version
      parentProps == IF pid = id THEN <<>> ELSE parent.Properties
  IN [child EXCEPT
        !.GroupID = g,
        !.Version = v,
        !.DependencyManagement = mergeParentDeps(@, parent.DependencyManagement),
        !.Properties = SetProperty(mergeParentProperties(@, parentProps),
                                   ProjectParentVersion, parentVersion)]

\* a merge of managed dependencies as the call log keeps it
MergeRecord(kind, into, from) ==
  [kind |-> kind, into |-> into, from |-> from, out |-> mergeParentDeps(into, from)]

\* the state after the child object `id` has inherited from the object `pid`
inherited(st, id, pid) ==
  [st EXCEPT
     !.heap = [@ EXCEPT ![id] = setProjectVersion(inheritFromParent(st.heap, id, pid))],
     !.merges = Append(@, MergeRecord("parent", st.heap[id].DependencyManagement,
                                      st.heap[pid].DependencyManagement))]

\* the state after the managed dependencies of `pid` have been merged into
\* those of `id` for an import-scoped entry
imported(st, id, pid) ==
  [st EXCEPT
     !.heap = [@ EXCEPT ![id].DependencyManagement =
                 mergeParentDeps(@, st.heap[pid].DependencyManagement)],
     !.merges = Append(@, MergeRecord("import", st.heap[id].DependencyManagement,
                                      st.heap[pid].DependencyManagement))]

\* the two loops over pom.Dependencies and `return pom, err`
finishPOM(st, id, err) ==
  LET pom == st.heap[id]
      deps == expandVersions(fillVersions(pom.Dependencies, pom.DependencyManagement),
                             pom.Properties)
  IN [st |-> [st EXCEPT !.heap = [@ EXCEPT ![id].Dependencies = deps]],
      ok |-> err = "none", pom |-> id, err |-> err]

\* documents one call may open, each with its deferred Close and its frames
\* of GetPOM and expandParentProperties pending, before the process has no
\* file descriptor or no stack left; no call that ends by itself comes near
MaxPomDepth == 6

RECURSIVE GetPOMFrom(_, _, _, _), withParent(_, _, _), managedLoop(_, _, _, _, _)

\* LocalRepository.GetPOM(groupID, artifactID, version) in the repository
\* state st: the state it leaves, and the object or the error it returns
GetPOMFrom(st, g, a, v) ==
  IF g = "" \/ a = "" \/ v = <<>> THEN PomError(st, "invalid maven coordinates")
  ELSE IF GAV(g, a, v) \in DOMAIN st.poms
  THEN [st |-> st, ok |-> TRUE, pom |-> st.poms[GAV(g, a, v)], err |-> "none"]
  ELSE IF Len(st.read) >= MaxPomDepth THEN PomError(st, "resources exhausted")
  ELSE IF GAV(g, a, v) \notin DOMAIN pomDocs
  THEN PomError([st EXCEPT !.read = Append(@, GAV(g, a, v))], "fetch failed")
  ELSE withParent([st EXCEPT
                     !.heap = Append(@, pomDocs[GAV(g, a, v)].pom),
                     !.read = Append(@, GAV(g, a, v)),
                     !.poms = cacheDecoded(@, GAV(g, a, v), Len(st.heap) + 1,
                                           pomDocs[GAV(g, a, v)].decodeErr)],
                  Len(st.heap) + 1, pomDocs[GAV(g, a, v)].decodeErr)

\* `if pom.Parent != nil { err = c.expandParentProperties(pom) ... }` and
\* `pom.SetProperty("project.version", pom.Version)`
withParent(st, id, err) ==
  IF st.heap[id].Parent = NoParent
  THEN managedLoop([st EXCEPT !.heap = [@ EXCEPT ![id] = setProjectVersion(@)]],
                   id, 1, Len(st.heap[id].DependencyManagement), err)
  ELSE LET par == st.heap[id].Parent[1]
           r == GetPOMFrom(st, par.GroupID, par.ArtifactID, par.Version)
       IN IF ~r.ok THEN PomError(r.st, r.err)
          ELSE managedLoop(inherited(r.st, id, r.pom), id, 1,
                           Len(inherited(r.st, id, r.pom).heap[id].DependencyManagement),
                           "none")

\* `for i := range pom.DependencyManagement.Dependencies { ... }` from index
\* i on, n being the length of the list when the loop started
managedLoop(st, id, i, n, err) ==
  IF i > n THEN finishPOM(st, id, err)
  ELSE LET dep == [st.heap[id].DependencyManagement[i] EXCEPT
                     !.Version = Expand(st.heap[id].Properties, @)]
           st1 == [st EXCEPT !.heap = [@ EXCEPT ![id].DependencyManagement[i] = dep]]
       IN IF dep.Scope = "import" /\ dep.Type = "pom"
          THEN LET r == GetPOMFrom(st1, dep.GroupID, dep.ArtifactID, dep.Version)
               IN IF ~r.ok THEN PomError(r.st, r.err)
                  ELSE managedLoop(imported(r.st, id, r.pom), id, i + 1, n, err)
          ELSE managedLoop(st1, id, i + 1, n, err)

(***************************************************************************)
(* Specification of GetPOM: a child document g:c:1, its parent h:p:2 and   *)
(* a document k:i:3 that is imported or stands as grandparent              *)
(***************************************************************************)
\* calls of GetPOM on one LocalRepository
MaxPomCalls == 2

CoordC == <<"g", "c", <<"1">>>>
CoordP == <<"h", "p", <<"2">>>>
CoordI == <<"k", "i", <<"3">>>>
PomCoords == {CoordC, CoordP, CoordI}

\* a <dependency> element of <dependencyManagement> or <dependencies>
Managed(g, a, v) == [GroupID |-> g, ArtifactID |-> a, Version |-> v, Type |-> "", Scope |-> ""]

\* `<scope>import</scope><type>pom</type>`
ImportOf(c) ==
  [GroupID |-> c[1], ArtifactID |-> c[2], Version |-> c[3], Type |-> "pom", Scope |-> "import"]

\* the <parent> element naming the coordinate c
ParentRef(c) == <<Managed(c[1], c[2], c[3])>>

\* what xml.Decoder.Decode leaves in the POM, and its error
Document(g, a, v, parent, props, dm, deps, decodeErr) ==
  [pom |-> [GroupID |-> g, ArtifactID |-> a, Version |-> v, Parent |-> parent,
            Packaging |-> "jar", Properties |-> props, DependencyManagement |-> dm,
            Dependencies |-> deps],
   decodeErr |-> decodeErr]

Property(key, value) == [key |-> key, value |-> value]

\* the child: it may leave out groupId and version, may name h:p:2 as parent,
\* manages g:x by its own version and may import k:i:3; the file may break
\* off after these elements
ChildDocuments ==
  {Document(g, "c", v, parent, <<Property(<<"a">>, <<"7">>)>>, dm,
            <<Managed("g", "x", <<>>), Managed("g", "y", Placeholder(<<"a">>))>>, e) :
     g \in {"", "g"}, v \in {<<>>, <<"1">>}, parent \in {NoParent, ParentRef(CoordP)},
     dm \in {<<Managed("g", "x", Placeholder(ProjectVersion))>>,
             <<Managed("g", "x", <<"1">>), ImportOf(CoordI)>>,
             <<ImportOf(CoordI), Managed("g", "x", Placeholder(ProjectVersion))>>},
     e \in {"none", "decode"}}

\* the parent: it may itself inherit from k:i:3 or, wrongly, from the child;
\* its managed list may name g:y twice
ParentDocuments ==
  {Document(gv[1], "p", gv[2], parent,
            <<Property(<<"a">>, <<"8">>), Property(<<"b">>, <<"8">>)>>, dm, <<>>, "none") :
     gv \in {<<"h", <<"2">>>>, <<"h", <<>>>>, <<"", <<>>>>},
     parent \in {NoParent, ParentRef(CoordI), ParentRef(CoordC)},
     dm \in {<<>>,
             <<Managed("g", "x", <<"2">>)>>,
             <<Managed("g", "y", <<"2">>), Managed("g", "y", <<"3">>),
               Managed("g", "x", Placeholder(ProjectVersion))>>}}

\* the third document: it may import the child
ImportDocuments ==
  {Document("k", "i", <<"3">>, NoParent, <<>>, dm, <<>>, "none") :
     dm \in {<<>>,
             <<Managed("g", "y", <<"3">>), Managed("g", "x", <<"3">>)>>,
             <<ImportOf(CoordC)>>}}

\* repositories: k:i:3 may be missing; a child whose file breaks off is named
\* by no other document
DecodedRepositories ==
  {r \in {(CoordC :> c) @@ (CoordP :> p) @@ i :
            c \in ChildDocuments, p \in ParentDocuments,
            i \in {<<>>} \cup {(CoordI :> d) : d \in ImportDocuments}} :
     r[CoordC].decodeErr = "none"
       \/ /\ r[CoordP].pom.Parent # ParentRef(CoordC)
          /\ (CoordI \in DOMAIN r => r[CoordI].pom.DependencyManagement # <<ImportOf(CoordC)>>)}

\* repositories in which child and parent name each other as parent and the
\* files of both break off after the <parent> element
UndecodedRepositories ==
  {(CoordC :> c) @@ (CoordP :> Document("h", "p", <<"2">>, ParentRef(CoordC), <<>>, <<>>,
                                        <<>>, "decode")) :
     c \in {d \in ChildDocuments :
              /\ d.decodeErr = "decode"
              /\ d.pom.Parent = ParentRef(CoordP)
              /\ d.pom.DependencyManagement[1] # ImportOf(CoordI)}}

PomRepositories == DecodedRepositories \cup UndecodedRepositories

InitPom ==
  /\ NoTools
  /\ pomDocs \in PomRepositories
  /\ pomHeap = <<>>
  /\ poms = <<>>
  /\ pomReturned = <<>>
  /\ pomResult = NoPomResult
  /\ expandInput = [props |-> <<>>, value |-> <<>>]
  /\ expandResult = NoExpand
  /\ remotes = <<>>
  /\ repoFiles = <<>>
  /\ fetchResult = NoFetch
  /\ installResult = NoInstall
  /\ References = <<>>
  /\ orderResult = NotCalled
  /\ NoLoader
  /\ NoDeps
  /\ NoBuild

\* the walker, or a test, asks the repository for the document of c
CallGetPOM ==
  \E c \in PomCoords :
    LET r == GetPOMFrom(RepoState(pomHeap, poms), c[1], c[2], c[3])
    IN /\ pomResult.calls < MaxPomCalls
       /\ pomResult.err # "resources exhausted"
       /\ pomHeap' = r.st.heap
       /\ poms' = r.st.poms
       /\ pomResult' = [called |-> TRUE, calls |-> pomResult.calls + 1, gav |-> c,
                        ok |-> r.ok, pom |-> r.pom, err |-> r.err,
                        read |-> r.st.read, merges |-> r.st.merges,
                        earlier |-> IF c \in DOMAIN pomReturned THEN pomReturned[c] ELSE 0,
                        mutated |-> r.st.heap # pomHeap]
       /\ pomReturned' = IF r.ok /\ c \notin DOMAIN pomReturned
                         THEN (c :> r.pom) @@ pomReturned
                         ELSE pomReturned
       /\ UNCHANGED <<pomDocs, expandInput, expandResult, orderVars, loadVars, depVars,
                      buildVars, repoVars, walkVars,
                    toolVars>>

NextPom == CallGetPOM

SpecPom == InitPom /\ [][NextPom]_vars

\* C14: when the managed dependencies of a parent or of an import-scoped
\* document are merged into those of a document, the entries the document
\* had stay as they were and where they were, no entry of a group:artifact
\* the document already had is added, and every group:artifact that only
\* the merged-in list has is added exactly once, with its first entry there.
C14_ChildWins ==
  \A m \in 1..Len(pomResult.merges) :
    LET into == pomResult.merges[m].into
        from == pomResult.merges[m].from
        out == pomResult.merges[m].out
    IN /\ Len(out) >= Len(into)
       /\ SubSeq(out, 1, Len(into)) = into
       /\ \A k \in (Len(into) + 1)..Len(out) :
            /\ \A j \in 1..Len(into) : ~SameKey(out[k], into[j])
            /\ \A j \in (Len(into) + 1)..Len(out) : SameKey(out[k], out[j]) => j = k
            /\ \E j \in 1..Len(from) :
                 /\ from[j] = out[k]
                 /\ \A h \in 1..(j - 1) : ~SameKey(from[h], from[j])
       /\ \A j \in 1..Len(from) : \E k \in 1..Len(out) : SameKey(from[j], out[k])

\* the child imports k:i:3, manages g:x itself and inherits from a parent
\* that manages g:y twice and g:x: it keeps its entries and gets one g:y;
\* the import then finds both of its keys taken
C14_Witness ==
  /\ pomResult.called /\ pomResult.ok /\ pomResult.gav = CoordC
  /\ \E m \in 1..Len(pomResult.merges) :
       /\ pomResult.merges[m].kind = "parent"
       /\ pomResult.merges[m].into =
            <<ImportOf(CoordI), Managed("g", "x", Placeholder(ProjectVersion))>>
       /\ Len(pomResult.merges[m].from) = Len(pomResult.merges[m].into) + 1
       /\ pomResult.merges[m].out =
            pomResult.merges[m].into \o <<Managed("g", "y", <<"2">>)>>
  /\ \E m \in 1..Len(pomResult.merges) :
       /\ pomResult.merges[m].kind = "import"
       /\ pomResult.merges[m].from = <<Managed("g", "y", <<"3">>), Managed("g", "x", <<"3">>)>>
       /\ pomResult.merges[m].out = pomResult.merges[m].into

\* the coordinate of the <parent> of the document written for c
ParentOf(c) ==
  GAV(pomDocs[c].pom.Parent[1].GroupID, pomDocs[c].pom.Parent[1].ArtifactID,
      pomDocs[c].pom.Parent[1].Version)

\* the document GetPOM returned has the groupId and version of its parent's
\* document where it wrote none, and its managed versions written as
\* ${project.version} are its own version
InheritsFromParent ==
  LET doc == pomDocs[pomResult.gav].pom
      res == pomHeap[pomResult.pom]
  IN /\ ParentOf(pomResult.gav) \in DOMAIN poms
     /\ doc.GroupID = "" => res.GroupID = pomHeap[poms[ParentOf(pomResult.gav)]].GroupID
     /\ doc.Version = <<>> => res.Version = pomHeap[poms[ParentOf(pomResult.gav)]].Version
     /\ \A i \in 1..Len(doc.DependencyManagement) :
          doc.DependencyManagement[i].Version = Placeholder(ProjectVersion)
            => res.DependencyManagement[i].Version = res.Version

\* C13: a document that declares a parent and leaves out groupId
\* or version comes back from GetPOM with the parent's resolved groupId or
\* version, and a managed version ${project.version} of the child becomes
\* the child's own version.
C13_ParentInheritance ==
  (pomResult.called /\ pomResult.ok /\ pomDocs[pomResult.gav].pom.Parent # NoParent)
    => InheritsFromParent

\* C17: once GetPOM has succeeded for a coordinate, every later GetPOM for
\* it returns the very same object and neither reads a file nor decodes nor
\* changes any document.
C17_Memoized ==
  (pomResult.called /\ pomResult.earlier # 0)
    => /\ pomResult.ok
       /\ pomResult.pom = pomResult.earlier
       /\ pomResult.read = <<>>
       /\ ~pomResult.mutated

\* C23: a GetPOM call that returns an error leaves no entry for the
\* requested coordinate in the cache of the repository.
C23_NoEntryAfterError ==
  (pomResult.called /\ ~pomResult.ok) => pomResult.gav \notin DOMAIN poms

\* whether the chain of <parent> elements from c goes on for n documents
\* more: it ends at a document that is missing or names no parent, and at
\* a decoded document it has met before, which the cache then holds
RECURSIVE ParentChainGoesOn(_, _, _)
ParentChainGoesOn(c, met, n) ==
  IF c \notin DOMAIN pomDocs THEN FALSE
  ELSE IF pomDocs[c].decodeErr = "none" /\ c \in met THEN FALSE
  ELSE IF n = 0 THEN TRUE
  ELSE IF pomDocs[c].pom.Parent = NoParent THEN FALSE
  ELSE ParentChainGoesOn(ParentOf(c), met \cup {c}, n - 1)

\* c is one of two documents that name each other as parent
OnParentCycle(c) ==
  /\ c \in DOMAIN pomDocs /\ pomDocs[c].pom.Parent # NoParent
  /\ ParentOf(c) \in DOMAIN pomDocs /\ pomDocs[ParentOf(c)].pom.Parent # NoParent
  /\ ParentOf(c) # c
  /\ ParentOf(ParentOf(c)) = c

\* C27 as stated: GetPOM for a document on a parent cycle recurses until
\* the process has no resources left.
C27_CycleNeverReturns ==
  (pomResult.called /\ OnParentCycle(pomResult.gav))
    => pomResult.err = "resources exhausted"

\* C27 as the code has it: a document is cached as soon as it is decoded,
\* before its parent is asked for, so a parent cycle ends at the cache once
\* it comes back to a decoded document, each document having been read at
\* most once; GetPOM recurses for as long as resources last only if no
\* document of the cycle can be decoded.
C27_CycleEndsAtCache ==
  pomResult.called =>
    /\ pomResult.err = "resources exhausted"
         <=> ParentChainGoesOn(pomResult.gav, {}, 2 * Cardinality(DOMAIN pomDocs))
    /\ pomResult.err # "resources exhausted"
         => \A i, j \in 1..Len(pomResult.read) :
              pomResult.read[i] = pomResult.read[j] => i = j

\* the child and the parent name each other as parent, both decode, and
\* GetPOM for the child has returned it after reading each of them once
C27_Witness ==
  /\ pomResult.called /\ pomResult.calls = 1
  /\ pomResult.gav = CoordC
  /\ OnParentCycle(CoordC)
  /\ pomDocs[CoordC].decodeErr = "none" /\ pomDocs[CoordP].decodeErr = "none"
  /\ pomResult.ok
  /\ pomResult.read = <<CoordC, CoordP>>

(***************************************************************************)
(* maven.LocalRepository.InstallPackage: publishing into the repository    *)
(***************************************************************************)
\* calls of InstallPackage on one repository directory
MaxInstalls == 2

\* version strings a module is published under
InstallVersions == {<<"1">>, <<"1", "-", "r">>}

\* what the files to publish hold; a file of the repository that was there
\* before holds neither
SourceContents == {"x", "y"}
OldContent == <<<<"old", "whole">>>>

\* faulty variant: every version counts as a pre-release
preReleaseAlways(version) == TRUE

\* `preRelease := strings.Contains(version, "-")`
preRelease(version) == \E i \in 1..Len(version) : version[i] = "-"

\* copyFile(src, dst): src is what the source file holds, "" if it cannot be
\* opened; fault names the call that fails (os.Create, io.Copy), if any
copyFile(fs, src, dst, fault) ==
  IF src = "" THEN [files |-> fs, err |-> "failed to open source file"]
  ELSE IF fault = "create" THEN [files |-> fs, err |-> "failed to create destination file"]
  ELSE IF fault = "copy"
  THEN [files |-> (dst :> <<<<src, "part">>>>) @@ fs, err |-> "failed to copy file content"]
  ELSE [files |-> (dst :> <<<<src, "whole">>>>) @@ fs, err |-> "none"]

\* InstallPackage from the copy of the JAR on, fs being the files after the
\* POM was copied
installJar(fs, g, a, v, jarSrc, fault) ==
  IF fileExists(fs, artifactPath(g, a, v, "jar")) /\ ~preRelease(v)
  THEN [files |-> fs, err |-> "JAR file already exists"]
  ELSE copyFile(fs, jarSrc, artifactPath(g, a, v, "jar"),
                IF fault = "create jar" THEN "create"
                ELSE IF fault = "copy jar" THEN "copy" ELSE "none")

\* InstallPackage(groupID, artifactID, version, jarPath, pomPath): the files
\* it leaves and the error it returns
InstallPackage(fs, g, a, v, jarSrc, pomSrc, fault) ==
  IF fault = "mkdir" THEN [files |-> fs, err |-> "failed to create maven directory"]
  ELSE IF fileExists(fs, artifactPath(g, a, v, "pom")) /\ ~preRelease(v)
  THEN [files |-> fs, err |-> "POM file already exists"]
  ELSE LET c == copyFile(fs, pomSrc, artifactPath(g, a, v, "pom"),
                         IF fault = "create pom" THEN "create"
                         ELSE IF fault = "copy pom" THEN "copy" ELSE "none")
       IN IF c.err # "none" THEN c
          ELSE installJar(c.files, g, a, v, jarSrc, fault)

InstallFaults == {"none", "mkdir", "create pom", "copy pom", "create jar", "copy jar"}

\* the repository directory holds, for each version, none, one or both of
\* the files of g:a
InstalledBefore ==
  {[p \in ps |-> OldContent] :
     ps \in SUBSET {artifactPath("g", "a", v, f) : v \in InstallVersions, f \in RepoFileNames}}

InitInstall ==
  /\ NoTools
  /\ repoFiles \in InstalledBefore
  /\ installResult = NoInstall
  /\ remotes = <<>>
  /\ fetchResult = NoFetch
  /\ NoPoms
  /\ walk = NoWalk
  /\ References = <<>>
  /\ orderResult = NotCalled
  /\ NoLoader
  /\ NoDeps
  /\ NoBuild

\* `jb publish`: the module's jar and pom are installed under a version
CallInstallPackage ==
  \E v \in InstallVersions, jarSrc \in SourceContents \cup {""},
     pomSrc \in SourceContents \cup {""}, fault \in InstallFaults :
    LET r == InstallPackage(repoFiles, "g", "a", v, jarSrc, pomSrc, fault)
    IN /\ installResult.calls < MaxInstalls
       /\ repoFiles' = r.files
       /\ installResult' = [called |-> TRUE, calls |-> installResult.calls + 1,
                            version |-> v, ok |-> r.err = "none", err |-> r.err,
                            before |-> repoFiles, pom |-> pomSrc, jar |-> jarSrc]
       /\ UNCHANGED <<remotes, fetchResult, orderVars, loadVars, depVars, buildVars,
                      pomVars, walkVars,
                    toolVars>>

NextInstall == CallInstallPackage

SpecInstall == InitInstall /\ [][NextInstall]_vars

\* the POM and the JAR of g:a at the version of the last InstallPackage
InstalledPaths == {artifactPath("g", "a", installResult.version, f) : f \in RepoFileNames}

HasDash(version) == \E i \in 1..Len(version) : version[i] = "-"

\* C21: InstallPackage leaves every POM and JAR that existed for a version
\* without "-" as it was and returns an error; for a version with "-" whose
\* files it can copy, the files that existed hold the new content afterwards.
C21_NoOverwriteOfRelease ==
  installResult.called =>
    /\ ~HasDash(installResult.version) =>
         /\ \A p \in InstalledPaths \cap DOMAIN installResult.before :
              p \in DOMAIN repoFiles /\ repoFiles[p] = installResult.before[p]
         /\ InstalledPaths \cap DOMAIN installResult.before # {} => ~installResult.ok
    /\ (HasDash(installResult.version) /\ installResult.ok) =>
         /\ repoFiles[artifactPath("g", "a", installResult.version, "pom")]
              = <<<<installResult.pom, "whole">>>>
         /\ repoFiles[artifactPath("g", "a", installResult.version, "jar")]
              = <<<<installResult.jar, "whole">>>>
    /\ \A p \in DOMAIN installResult.before \ InstalledPaths :
         p \in DOMAIN repoFiles /\ repoFiles[p] = installResult.before[p]

\* version 1-r was there with both files and is installed again: both files
\* hold the new content
C21_Witness ==
  /\ installResult.called /\ installResult.ok
  /\ installResult.version = <<"1", "-", "r">>
  /\ InstalledPaths \subseteq DOMAIN installResult.before
  /\ \A p \in InstalledPaths : installResult.before[p] = OldContent /\ repoFiles[p] # OldContent

MaxGavLen == 5

\* the characters of a coordinate string: two that are not the separator,
\* and the separator
GavChars == {"a", "b", ":"}

\* strings.Split(s, ":") continued at position i: seg is the segment being
\* read and acc the segments already closed
RECURSIVE SplitFrom(_, _, _, _)
SplitFrom(s, i, seg, acc) ==
  IF i > Len(s) THEN Append(acc, seg)
  ELSE IF s[i] = ":" THEN SplitFrom(s, i + 1, <<>>, Append(acc, seg))
  ELSE SplitFrom(s, i + 1, Append(seg, s[i]), acc)

\* strings.Split(gav, ":"): the empty string splits into one empty segment
Split(s) == SplitFrom(s, 1, <<>>, <<>>)

\* a mutation of emptySegment that accepts empty segments
emptySegmentAccepted(dep) == FALSE

\* dep.Group == "" || dep.Artifact == "" || dep.Version == ""
emptySegment(dep) == dep.Group = <<>> \/ dep.Artifact = <<>> \/ dep.Version = <<>>

\* what ParseCoordinates returns: the Dependency, or nil and an error
ParseCoordinates(gav) ==
  LET parts == Split(gav)
  IN IF Len(parts) # 3 THEN [ok |-> FALSE, dep |-> <<>>]
     ELSE LET dep == [Coordinates |-> gav, Group |-> parts[1], Artifact |-> parts[2],
                      Version |-> parts[3]]
          IN IF emptySegment(dep) THEN [ok |-> FALSE, dep |-> <<>>]
             ELSE [ok |-> TRUE, dep |-> dep]

InitParse ==
  /\ parse \in {[NoParse EXCEPT !.gav = s] : s \in SeqsUpTo(GavChars, MaxGavLen)}
  /\ fetchers = <<>>
  /\ NoObjects
  /\ NoLoader
  /\ NoDeps
  /\ NoBuild
  /\ NoRepo
  /\ References = <<>>
  /\ orderResult = NotCalled

\* a dependency string of a module file or of the command line is parsed
CallParseCoordinates ==
  LET r == ParseCoordinates(parse.gav)
  IN /\ ~parse.called
     /\ parse' = [called |-> TRUE, gav |-> parse.gav, ok |-> r.ok, dep |-> r.dep]
     /\ UNCHANGED <<orderVars, loadVars, depVars, buildVars, repoVars, pomVars, walkVars,
                    fetchers, depObjects, collected>>

NextParse == CallParseCoordinates

SpecParse == InitParse /\ [][NextParse]_vars

\* the positions of the separator in a string
Colons(s) == {i \in 1..Len(s) : s[i] = ":"}

\* a string of three non-empty segments separated by two colons
ThreeSegments(s) ==
  /\ Cardinality(Colons(s)) = 2
  /\ 1 \notin Colons(s)
  /\ Len(s) \notin Colons(s)
  /\ \A i \in Colons(s) : i + 1 \notin Colons(s)

\* C22: ParseCoordinates succeeds exactly for the strings made of three
\* non-empty segments separated by colons, and then returns the three
\* segments as group, artifact and version; for every other string it
\* returns an error and no Dependency.
C22_ThreeNonEmptySegments ==
  parse.called =>
    /\ parse.ok <=> ThreeSegments(parse.gav)
    /\ ~parse.ok => parse.dep = <<>>
    /\ parse.ok =>
         /\ parse.dep.Coordinates = parse.gav
         /\ parse.dep.Group \o <<":">> \o parse.dep.Artifact \o <<":">> \o parse.dep.Version
              = parse.gav
         /\ \A part \in {parse.dep.Group, parse.dep.Artifact, parse.dep.Version} :
              part # <<>> /\ Colons(part) = {}

\* a string of three one-character segments was parsed
C22_Witness ==
  /\ parse.called
  /\ parse.ok
  /\ parse.gav = <<"a", ":", "b", ":", "a">>
  /\ parse.dep.Group = <<"a">> /\ parse.dep.Artifact = <<"b">> /\ parse.dep.Version = <<"a">>

(***************************************************************************)
(* maven.LocalRepository.getFile called by several tool processes at once  *)
(***************************************************************************)
\* the tool processes that share the repository directory
Fetchers == {"p1", "p2", "p3"}

\* the file all of them ask for, missing at the start
RacePath == artifactPath("g", "a", "1", "jar")

\* writes io.Copy needs for the body of the file
BodyWrites == 2

\* what the one remote does for a process: it delivers the body, answers
\* 404, or breaks off after the first write
RaceOutcomes == {"ok", "not found", "broken"}

\* a process that has not yet looked for the file
Arrived ==
  [pc |-> "check", hit |-> FALSE, err |-> "none", fd |-> 0, outcome |-> "none",
   openErr |-> "none", openedExisting |-> FALSE, busy |-> {}, seen |-> 0]

\* the file numbers in use: of the file at the path and of the open handles
LiveFiles(fs, procs) ==
  {procs[p].fd : p \in DOMAIN procs} \cup {fs[q].ino : q \in DOMAIN fs} \cup {0}

FreshFile(fs, procs) ==
  CHOOSE n \in 1..(Cardinality(DOMAIN procs) + 1) : n \notin LiveFiles(fs, procs)

\* a mutation of OpenFile that asks for O_EXCL: an existing file is an error
OpenFileExcl(fs, path, fresh) ==
  IF fileExists(fs, path) THEN [fs |-> fs, fd |-> 0, err |-> "file exists"]
  ELSE [fs |-> (path :> [ino |-> fresh, bytes |-> <<>>]) @@ fs, fd |-> fresh,
        err |-> "none"]

\* os.OpenFile(artifactPath, os.O_CREATE|os.O_WRONLY, 0600): creates the file
\* when it is missing, opens the existing file as it is otherwise
OpenFile(fs, path, fresh) ==
  IF fileExists(fs, path) THEN [fs |-> fs, fd |-> fs[path].ino, err |-> "none"]
  ELSE [fs |-> (path :> [ino |-> fresh, bytes |-> <<>>]) @@ fs, fd |-> fresh,
        err |-> "none"]

\* the k-th write of io.Copy through handle fd, made by process p: it lands
\* at the handle's own offset, in the file the handle was opened on
WriteBody(fs, path, fd, k, p) ==
  IF fileExists(fs, path) /\ fs[path].ino = fd
  THEN [fs EXCEPT ![path].bytes =
          IF k <= Len(@) THEN [@ EXCEPT ![k] = <<p, k>>] ELSE Append(@, <<p, k>>)]
  ELSE fs

\* the processes that hold the file open for writing and have not returned
Downloading(procs) == {p \in DOMAIN procs : procs[p].pc \in {"get", "copy"}}

InitRace ==
  /\ fetchers = [p \in Fetchers |-> Arrived]
  /\ parse = NoParse
  /\ NoObjects
  /\ remotes = <<"central">>
  /\ repoFiles = <<>>
  /\ fetchResult = NoFetch
  /\ installResult = NoInstall
  /\ NoPoms
  /\ NoLoader
  /\ NoDeps
  /\ NoBuild
  /\ References = <<>>
  /\ orderResult = NotCalled

idleForRace ==
  <<remotes, fetchResult, installResult, orderVars, loadVars, depVars, buildVars,
    pomVars, walkVars, parse, depObjects, collected>>

\* `if fileExists(artifactPath) { return artifactPath, nil }`
CheckFile(p) ==
  /\ fetchers[p].pc = "check"
  /\ IF fileExists(repoFiles, RacePath)
     THEN fetchers' = [fetchers EXCEPT ![p].pc = "returned", ![p].hit = TRUE,
                                       ![p].busy = Downloading(fetchers),
                                       ![p].seen = Len(repoFiles[RacePath].bytes)]
     ELSE fetchers' = [fetchers EXCEPT ![p].pc = "open"]
  /\ UNCHANGED <<repoFiles, idleForRace>>

\* os.MkdirAll and os.OpenFile
OpenDestination(p) ==
  /\ fetchers[p].pc = "open"
  /\ LET o == OpenFile(repoFiles, RacePath, FreshFile(repoFiles, fetchers))
     IN /\ repoFiles' = o.fs
        /\ fetchers' = [fetchers EXCEPT
                          ![p].pc = IF o.err = "none" THEN "get" ELSE "returned",
                          ![p].fd = o.fd, ![p].openErr = o.err, ![p].err = o.err,
                          ![p].openedExisting = fileExists(repoFiles, RacePath),
                          ![p].busy = Downloading(fetchers)]
  /\ UNCHANGED idleForRace

\* the error path of getFile: outFile.Close(), os.Remove(artifactPath)
FailFetch(p) ==
  /\ repoFiles' = RemoveFile(repoFiles, RacePath)
  /\ fetchers' = [fetchers EXCEPT ![p].pc = "returned", ![p].fd = 0,
                                  ![p].err = "failed to fetch"]

\* fetchFromRemote up to the first write of io.Copy
GetRemote(p) ==
  /\ fetchers[p].pc = "get"
  /\ \E outcome \in RaceOutcomes :
       IF outcome = "not found"
       THEN FailFetch(p)
       ELSE /\ repoFiles' = WriteBody(repoFiles, RacePath, fetchers[p].fd, 1, p)
            /\ fetchers' = [fetchers EXCEPT ![p].pc = "copy", ![p].outcome = outcome]
  /\ UNCHANGED idleForRace

\* the rest of io.Copy, then the return of getFile
CopyRest(p) ==
  /\ fetchers[p].pc = "copy"
  /\ IF fetchers[p].outcome = "broken"
     THEN FailFetch(p)
     ELSE /\ repoFiles' = WriteBody(repoFiles, RacePath, fetchers[p].fd, BodyWrites, p)
          /\ fetchers' = [fetchers EXCEPT ![p].pc = "returned", ![p].fd = 0]
  /\ UNCHANGED idleForRace

NextRace ==
  \E p \in Fetchers :
    \/ CheckFile(p)
    \/ OpenDestination(p)
    \/ GetRemote(p)
    \/ CopyRest(p)

SpecRace == InitRace /\ [][NextRace]_vars

\* C26: nothing keeps two processes from writing the same destination, and
\* nothing makes a process wait for a download in progress: every process
\* that found the file missing gets it opened for writing, whether or not
\* another process has created it and still writes it, and every process
\* that finds the file existing returns without error at once, however
\* many bytes the file holds and whoever still writes it.
C26_NoMutualExclusion ==
  \A p \in DOMAIN fetchers :
    /\ fetchers[p].openErr = "none"
    /\ fetchers[p].pc \in {"get", "copy"} => fetchers[p].fd # 0
    /\ fetchers[p].hit => fetchers[p].pc = "returned" /\ fetchers[p].err = "none"

\* two processes hold the destination open and are still writing it, one
\* having opened the file the other created, while a third has returned the
\* path of the file, of which one write of the body has been made
C26_Witness ==
  \E p, q, r \in DOMAIN fetchers :
    /\ p # q
    /\ fetchers[p].pc = "copy" /\ fetchers[q].pc = "copy"
    /\ fetchers[p].fd = fetchers[q].fd
    /\ fetchers[q].openedExisting /\ p \in fetchers[q].busy
    /\ fetchers[r].pc = "returned" /\ fetchers[r].hit /\ fetchers[r].err = "none"
    /\ fetchers[r].busy # {}
    /\ fetchers[r].seen < BodyWrites
    /\ Len(repoFiles[RacePath].bytes) < BodyWrites

(***************************************************************************)
(* getBuildDependencies over Dependency objects linked by pointers         *)
(***************************************************************************)
\* entries of the Transitive list of one Dependency object
MaxTransitive == 2

\* calls of addPkg that can be pending at once before the stack of the
\* process is used up; three objects without a cycle need no more than three
MaxPkgDepth == 4

\* the Dependency objects in memory: lib1 1.0, lib2 1.0 and another version
\* of lib1, every one resolved already (Path is set)
ObjIds == {1, 2, 3}
ResolvedObjects ==
  << [Group |-> "com.example", Artifact |-> "lib1", Version |-> "1.0",
      Path |-> <<"fake", "path", "lib1.jar">>, Transitive |-> <<>>],
     [Group |-> "com.example", Artifact |-> "lib2", Version |-> "1.0",
      Path |-> <<"fake", "path", "lib2.jar">>, Transitive |-> <<>>],
     [Group |-> "com.example", Artifact |-> "lib1", Version |-> "2.0",
      Path |-> <<"fake", "path", "lib1-2.jar">>, Transitive |-> <<>>] >>

\* every way the Transitive lists can point at the other objects
ObjectGraphs ==
  {[i \in ObjIds |-> [ResolvedObjects[i] EXCEPT !.Transitive = t[i]]] :
     t \in {u \in [ObjIds -> SeqsUpTo(ObjIds, MaxTransitive)] :
              \A i \in ObjIds : i \notin Range(u[i])}}

\* ResolveDependencies on objects that are resolved: resolveDependency
\* returns nil at `if dep.Path != ""` for each entry of the list
resolveResolved(objects, list) ==
  IF \A i \in 1..Len(list) : objects[list[i]].Path # <<>> THEN "none" ELSE "unresolved"

RECURSIVE addPkgObject(_, _, _, _), addPkgObjects(_, _, _, _, _)

\* the closure addPkg called with the object `id`, the call being the
\* depth-th pending one; acc holds seenDeps, jars and whether the stack
\* overflowed
addPkgObject(objects, id, acc, depth) ==
  LET pkg == objects[id]
      key == <<pkg.Group, pkg.Artifact>>
  IN IF depth > MaxPkgDepth THEN [acc EXCEPT !.err = "stack overflow"]
     ELSE IF key \in DOMAIN acc.seenDeps
     THEN IF acc.seenDeps[key] # pkg.Version THEN acc
          ELSE addPkgObjects(objects, pkg.Transitive, 1, acc, depth + 1)
     ELSE addPkgObjects(objects, pkg.Transitive, 1,
                        [acc EXCEPT !.seenDeps = (key :> pkg.Version) @@ @,
                                    !.jars = IF pkg.Path # <<>> THEN @ \cup {pkg.Path}
                                             ELSE @],
                        depth + 1)

\* `for _, dep := range list { addPkg(dep) }`, calls of depth `depth`
addPkgObjects(objects, list, i, acc, depth) ==
  IF i > Len(list) \/ acc.err # "none" THEN acc
  ELSE addPkgObjects(objects, list, i + 1, addPkgObject(objects, list[i], acc, depth),
                     depth)

\* getBuildDependencies for a module without references whose Dependencies
\* are the objects of `list`
getBuildDependenciesOf(objects, list) ==
  IF resolveResolved(objects, list) # "none"
  THEN [ok |-> FALSE, jars |-> {}, err |-> resolveResolved(objects, list)]
  ELSE LET acc == addPkgObjects(objects, list, 1,
                                [seenDeps |-> <<>>, jars |-> {}, err |-> "none"], 1)
       IN [ok |-> acc.err = "none",
           jars |-> IF acc.err = "none" THEN acc.jars ELSE {},
           err |-> acc.err]

InitObjects ==
  /\ depObjects \in [objects : ObjectGraphs, list : {<<i>> : i \in ObjIds}]
  /\ collected = NoCollection
  /\ parse = NoParse
  /\ fetchers = <<>>
  /\ NoLoader
  /\ NoDeps
  /\ NoBuild
  /\ NoRepo
  /\ References = <<>>
  /\ orderResult = NotCalled

\* Build or RunTest asks for the classpath of the module
CallGetBuildDependenciesOf ==
  LET r == getBuildDependenciesOf(depObjects.objects, depObjects.list)
  IN /\ ~collected.called
     /\ collected' = [called |-> TRUE, ok |-> r.ok, jars |-> r.jars, err |-> r.err]
     /\ UNCHANGED <<depObjects, parse, fetchers, orderVars, loadVars, depVars, buildVars,
                    repoVars, pomVars, walkVars>>

NextObjects == CallGetBuildDependenciesOf

SpecObjects == InitObjects /\ [][NextObjects]_vars

\* C29: getBuildDependencies returns for every module whose dependencies
\* ResolveDependencies accepts, also when the Transitive lists of resolved
\* dependencies form a cycle.
C29_CollectionTerminates ==
  collected.called => collected.err # "stack overflow"
====
